---- MODULE Spec2Model ----
(***************************************************************************)
(* The storage synchronizer of the state-sync driver                       *)
(* (state-sync/state-sync-driver/src/storage_synchronizer.rs): the ingress *)
(* operations of StorageSynchronizer, the executor, ledger updater,        *)
(* committer and commit post-processor tasks, the state snapshot receiver  *)
(* task, the shared pending-chunk counter and the error channel.           *)
(*                                                                         *)
(* Every await point of a task and every access to a shared object (a      *)
(* channel, the AtomicU64 counter) is a separate step, so that the tasks   *)
(* interleave as they do on a multi-threaded runtime.                      *)
(***************************************************************************)
EXTENDS Integers, Sequences, FiniteSets, TLC

\* ------------------------------------------------------------- bounds
\* Number of ingress calls that submit a chunk (they are numbered 1, 2, ...
\* in the order in which the calls start, and the number is the chunk's
\* NotificationId).
MaxChunks == 3
\* Largest driver_config.max_pending_data_chunks, the buffer of every bounded
\* channel.
MaxPending == 2
\* Number of StorageSynchronizer handles (the original and its clones).
MaxHandles == 2
\* Number of initialize_state_synchronizer calls.
MaxBootstraps == 2
\* Largest last_index of a state value chunk.
MaxIndex == 2
\* Number of reset_chunk_executor and finish_chunk_executor calls.
MaxExecutorCalls == 2

Ids == 1..MaxChunks
Handles == 1..MaxHandles
Boots == 1..MaxBootstraps

\* ------------------------------------------------------------- chunks
\* StorageDataChunk: the variant, the notification id and, for States, the
\* fields of StateValueChunkWithProof the receiver reads.
StorageDataChunk(id, kind, last_index, is_last) ==
    [id |-> id, kind |-> kind, last_index |-> last_index, is_last |-> is_last]

NoChunk == StorageDataChunk(0, "None", 0, FALSE)

\* The variants notify_executor is called with.
ExecutorKinds == {"Transactions", "TransactionOutputs"}

\* ------------------------------------------------------------- counter
\* The AtomicU64 is kept as four 16-bit limbs, least significant first, so
\* that fetch_add and fetch_sub wrap exactly as they do on 64 bits.
Limb == 2 ^ 16

U64(n) == <<n, 0, 0, 0>>

U64Max == <<Limb - 1, Limb - 1, Limb - 1, Limb - 1>>

RECURSIVE Carry(_, _)
Carry(v, i) ==
    IF i > Len(v) THEN v
    ELSE IF v[i] = Limb - 1 THEN Carry([v EXCEPT ![i] = 0], i + 1)
    ELSE [v EXCEPT ![i] = @ + 1]

RECURSIVE Borrow(_, _)
Borrow(v, i) ==
    IF i > Len(v) THEN v
    ELSE IF v[i] = 0 THEN Borrow([v EXCEPT ![i] = Limb - 1], i + 1)
    ELSE [v EXCEPT ![i] = @ - 1]

\* ------------------------------------------------------------- state
VARIABLES
    max_pending_data_chunks, \* driver_config.max_pending_data_chunks
    sync,                   \* the StorageSynchronizer handles
    pending_data_chunks,    \* the AtomicU64 shared by the handles and the tasks
    executor_ch,            \* executor_notifier -> executor_listener
    ledger_updater_ch,      \* ledger_updater_notifier -> ledger_updater_listener
    committer_ch,           \* committer_notifier -> committer_listener
    post_processor_ch,      \* commit_post_processor_notifier -> .._listener
    snapshot_ch,            \* state_snapshot_notifier -> state_snapshot_listener
    executor,               \* the task of spawn_executor
    ledger_updater,         \* the task of spawn_ledger_updater
    committer,              \* the task of spawn_committer
    post_processor,         \* the task of spawn_commit_post_processor
    receiver,               \* the tasks of spawn_state_snapshot_receiver
    target_version,         \* per bootstrap: target_ledger_info.ledger_info().version()
    error_notifications,    \* the error channel: notification id -> number sent
    error_listener,         \* the driver still holds the error receiver
    commit_notifications,   \* the commit channel: StateSnapshotCommit sent
    commit_listener,        \* the driver still holds the commit receiver
    fanout,                 \* handle_committed_transactions calls, in order
    storage_log,            \* per bootstrap: the storage / metadata / executor calls
    chunk_executor,         \* the reset() and finish() calls made on the chunk
                            \* executor through the handles, and what the last
                            \* reset_chunk_executor returned
    mock_vm,                \* the block given to MockVM::execute_block_no_limit
                            \* and the outputs it returned
    observed,               \* the results of pending_storage_data(): <<>> before
                            \* the first call, then <<the last result>>
    next_id,                \* the next notification id
    next_boot,              \* the next bootstrap
    hist                    \* per chunk: what has happened to it so far

vars == <<max_pending_data_chunks, sync, pending_data_chunks, executor_ch, ledger_updater_ch, committer_ch,
          post_processor_ch, snapshot_ch, executor, ledger_updater, committer,
          post_processor, receiver, target_version, error_notifications,
          error_listener, commit_notifications, commit_listener, fanout, storage_log, observed, chunk_executor, mock_vm,
          next_id, next_boot, hist>>

channels == <<executor_ch, ledger_updater_ch, committer_ch, post_processor_ch, snapshot_ch>>
tasks == <<executor, ledger_updater, committer, post_processor, receiver, target_version>>
driver == <<error_notifications, error_listener, commit_notifications, commit_listener>>
pipeline_tasks == <<executor, ledger_updater, committer, post_processor>>

\* A channel as mpsc::channel returns it.
NewChannel == [q |-> <<>>, parked |-> <<>>, open |-> TRUE]

\* Error::UnexpectedError(message), the only variant the ingress operations
\* return; NoError stands for a call that has returned no error.
UnexpectedError(message) == [kind |-> "UnexpectedError", message |-> message]

NoError == [kind |-> "None", message |-> ""]

NoHist == [ret |-> "none", pushed |-> FALSE, incs |-> 0, decs |-> 0,
           enq |-> "none", upd |-> "none", com |-> "none", add |-> "none",
           failed |-> FALSE, error |-> NoError, last_index |-> 0]

Idle == [pc |-> "recv", cur |-> NoChunk]
Done == [pc |-> "done", cur |-> NoChunk]
Panicked(chunk) == [pc |-> "panicked", cur |-> chunk]

\* The task has returned or panicked.
Ended(task) == task.pc \in {"done", "panicked"}

\* StorageSynchronizer::new: four open channels, four spawned tasks, the
\* counter at 0, no state snapshot notifier; one handle is returned.
Init ==
    /\ max_pending_data_chunks \in 1..MaxPending
    /\ sync = [h \in Handles |->
                 [st |-> IF h = 1 THEN "idle" ELSE "unused", notifier |-> 0, cur |-> 0]]
    /\ pending_data_chunks = U64(0)
    /\ executor_ch = NewChannel
    /\ ledger_updater_ch = NewChannel
    /\ committer_ch = NewChannel
    /\ post_processor_ch = NewChannel
    /\ snapshot_ch = [b \in Boots |-> NewChannel]
    /\ executor = Idle
    /\ ledger_updater = Idle
    /\ committer = Idle
    /\ post_processor = Idle
    /\ receiver = [b \in Boots |-> [pc |-> "none", cur |-> NoChunk]]
    /\ target_version = [b \in Boots |-> 0]
    /\ error_notifications = [i \in Ids |-> 0]
    /\ error_listener = TRUE
    /\ commit_notifications = <<>>
    /\ commit_listener = TRUE
    /\ fanout = <<>>
    /\ storage_log = [b \in Boots |-> <<>>]
    /\ observed = <<>>
    /\ mock_vm = [block |-> <<>>, outputs |-> <<>>]
    /\ chunk_executor = [reset |-> 0, finish |-> 0, reset_ok |-> TRUE, result |-> NoError]
    /\ next_id = 1
    /\ next_boot = 1
    /\ hist = [i \in Ids |-> NoHist]

\* ------------------------------------------------- bounded mpsc channels
\* futures::channel::mpsc::channel(buffer): q is the message queue, parked
\* the queue of parked sender tasks, open is FALSE once the receiver has
\* been dropped.  A sender that is not parked may always push one message;
\* it parks itself when the push takes the queue above the buffer, and
\* every message the receiver takes unparks the sender parked first.
IsParked(ch, s) == \E i \in 1..Len(ch.parked) : ch.parked[i] = s

\* A queue that hands out the newest message first; the ordering property
\* C4 must reject it.
PushFront(q, m) == <<m>> \o q

\* The message queue of the channel is first in, first out.
PushBack(q, m) == Append(q, m)

\* A send that never parks the sender, as on an unbounded channel; the
\* backpressure property C9 must reject it.
do_send_unbounded(ch, s, m) == [ch EXCEPT !.q = PushBack(@, m)]

\* A send that overwrites the newest queued message when the queue is at
\* the buffer size, instead of parking the sender; the capacity property
\* C22 must reject it.
do_send_overwriting(ch, s, m) ==
    IF Len(ch.q) + 1 > max_pending_data_chunks
    THEN [ch EXCEPT !.q = PushBack(SubSeq(@, 1, Len(@) - 1), m)]
    ELSE [ch EXCEPT !.q = PushBack(@, m)]

\* BoundedSenderInner::do_send_b reached through Sender::send / try_send.
do_send_b(ch, s, m) ==
    [ch EXCEPT !.q = PushBack(@, m),
               !.parked = IF Len(ch.q) + 1 > max_pending_data_chunks THEN Append(@, s) ELSE @]

\* Receiver::next_message when the queue holds a message.
next_message(ch) ==
    [ch EXCEPT !.q = Tail(@),
               !.parked = IF @ = <<>> THEN @ ELSE Tail(@)]

\* The receiver is dropped (its task returned or panicked): the channel is
\* closed, every parked sender is woken and the queued messages are dropped.
drop_receiver(ch) == [q |-> <<>>, parked |-> <<>>, open |-> FALSE]

\* ------------------------------------------------------------- helpers
Alive(h) == sync[h].st \notin {"unused", "dropped"}

\* The senders of the executor channel: one per live handle.
ExecutorSenders == {h \in Handles : Alive(h)}

\* The senders of a bootstrap channel: the live handles that hold it.
SnapshotSenders(b) == {h \in Handles : Alive(h) /\ sync[h].notifier = b}

\* load_pending_data_chunks
load_pending_data_chunks == pending_data_chunks

\* increment_pending_data_chunks: fetch_add(1, Relaxed)
increment_pending_data_chunks == Carry(pending_data_chunks, 1)

\* decrement_pending_data_chunks: fetch_sub(1, Relaxed)
decrement_pending_data_chunks == Borrow(pending_data_chunks, 1)

\* An error report that is sent twice; the error property C6 must reject it.
send_storage_synchronizer_error_twice(id) ==
    IF error_listener
    THEN [error_notifications EXCEPT ![id] = @ + 2]
    ELSE error_notifications

\* send_storage_synchronizer_error: the notification is delivered when the
\* receiver of the error channel is alive, and only logged otherwise.
send_storage_synchronizer_error(id) ==
    IF error_listener
    THEN [error_notifications EXCEPT ![id] = @ + 1]
    ELSE error_notifications

\* (NotificationId, Option<Instant>) between the stages, and the
\* (ChunkCommitNotification, Option<Instant>) of the chunk with that id.
StageMessage(id) == StorageDataChunk(id, "Stage", 0, FALSE)

\* ------------------------------------------------------------- ingress
\* notify_executor up to the end of the send's start_send: the send fails
\* when the executor's receiver is gone, and pushes the chunk otherwise
\* (a handle that completed its previous send is never parked).
notify_executor(h, kind) ==
    /\ sync[h].st = "idle"
    /\ next_id <= MaxChunks
    /\ next_id' = next_id + 1
    /\ IF executor_ch.open
       THEN /\ executor_ch' = do_send_b(executor_ch, h,
                                        StorageDataChunk(next_id, kind, 0, FALSE))
            /\ sync' = [sync EXCEPT ![h].st = "flush", ![h].cur = next_id]
            /\ hist' = [hist EXCEPT ![next_id].pushed = TRUE]
       ELSE /\ hist' = [hist EXCEPT
                   ![next_id].ret = "err",
                   ![next_id].error =
                       UnexpectedError("Failed to send storage data chunk to executor")]
            /\ UNCHANGED <<max_pending_data_chunks, executor_ch, sync>>
    /\ UNCHANGED <<max_pending_data_chunks, pending_data_chunks, ledger_updater_ch,
                   committer_ch, post_processor_ch, snapshot_ch, tasks, driver, fanout,
                   storage_log, observed, chunk_executor, mock_vm, next_boot>>

\* An apply_transaction_outputs that wraps its chunk in the States variant;
\* the routing invariant C37 must reject it.
apply_transaction_outputs_as_states(h) == notify_executor(h, "States")

apply_transaction_outputs(h) == notify_executor(h, "TransactionOutputs")

execute_transactions(h) == notify_executor(h, "Transactions")

\* A return of notify_executor that leaves the counter alone; the ingress
\* property C10 must reject it.
notify_executor_return_uncounted(h) ==
    /\ sync[h].st = "flush"
    /\ ~IsParked(executor_ch, h)
    /\ hist' = [hist EXCEPT ![sync[h].cur].ret = "ok"]
    /\ sync' = [sync EXCEPT ![h].st = "idle", ![h].cur = 0]
    /\ UNCHANGED <<max_pending_data_chunks, pending_data_chunks, channels, tasks,
                   driver, fanout, storage_log, observed, chunk_executor, mock_vm, next_id, next_boot>>

\* The rest of notify_executor: the send's flush completes once the handle's
\* sender is not parked (or the receiver is gone, which flush takes for
\* flushed), then the counter is incremented and Ok(()) is returned.
notify_executor_return(h) ==
    /\ sync[h].st = "flush"
    /\ ~IsParked(executor_ch, h)
    /\ pending_data_chunks' = increment_pending_data_chunks
    /\ hist' = [hist EXCEPT ![sync[h].cur].ret = "ok", ![sync[h].cur].incs = @ + 1]
    /\ sync' = [sync EXCEPT ![h].st = "idle", ![h].cur = 0]
    /\ UNCHANGED <<max_pending_data_chunks, channels, tasks, driver, fanout,
                   storage_log, observed, chunk_executor, mock_vm, next_id, next_boot>>

\* initialize_state_synchronizer: a new channel, a new receiver task, and
\* the handle's state_snapshot_notifier is replaced by the new sender.
initialize_state_synchronizer(h, version) ==
    /\ sync[h].st = "idle"
    /\ next_boot <= MaxBootstraps
    /\ next_boot' = next_boot + 1
    /\ receiver' = [receiver EXCEPT ![next_boot] = [pc |-> "start", cur |-> NoChunk]]
    /\ target_version' = [target_version EXCEPT ![next_boot] = version]
    /\ sync' = [sync EXCEPT ![h].notifier = next_boot]
    /\ UNCHANGED <<max_pending_data_chunks, pending_data_chunks, channels,
                   pipeline_tasks, driver, fanout, storage_log, observed, chunk_executor, mock_vm, next_id,
                   hist>>

\* initialize_state_synchronizer as the driver calls it: on a synchronizer
\* that holds no bootstrap sender yet.
initialize_once(h, version) ==
    /\ sync[h].notifier = 0
    /\ initialize_state_synchronizer(h, version)

\* pending_storage_data
pending_storage_data(h) ==
    /\ sync[h].st = "idle"
    /\ observed' = <<load_pending_data_chunks # U64(0)>>
    /\ UNCHANGED <<max_pending_data_chunks, sync, pending_data_chunks, channels, tasks,
                   driver, fanout, storage_log, chunk_executor, mock_vm, next_id,
                   next_boot, hist>>

\* A save_state_values that makes room on a full channel by dropping the
\* chunk queued first; the frame property C12 must reject it.
save_state_values_dropping(h, last_index, is_last) ==
    /\ sync[h].st = "idle"
    /\ next_id <= MaxChunks
    /\ next_id' = next_id + 1
    /\ LET b == sync[h].notifier IN
       IF b # 0 /\ snapshot_ch[b].open
       THEN /\ snapshot_ch' = [snapshot_ch EXCEPT ![b] =
                   IF IsParked(@, h)
                   THEN [@ EXCEPT !.q = Append(Tail(@),
                            StorageDataChunk(next_id, "States", last_index, is_last))]
                   ELSE do_send_b(@, h,
                            StorageDataChunk(next_id, "States", last_index, is_last))]
            /\ sync' = [sync EXCEPT ![h].st = "sent", ![h].cur = next_id]
            /\ hist' = [hist EXCEPT ![next_id].pushed = TRUE,
                                    ![next_id].last_index = last_index]
       ELSE /\ hist' = [hist EXCEPT ![next_id].ret =
                                       IF b = 0 THEN "uninitialized" ELSE "err"]
            /\ UNCHANGED <<snapshot_ch, sync>>
    /\ UNCHANGED <<max_pending_data_chunks, pending_data_chunks, executor_ch,
                   ledger_updater_ch, committer_ch, post_processor_ch, tasks, driver,
                   fanout, storage_log, observed, chunk_executor, mock_vm, next_boot>>

\* save_state_values up to the try_send: an error when the notifier is
\* None, when the receiver is gone or when the handle's sender is parked
\* (the channel is full); the chunk is pushed otherwise.
save_state_values(h, last_index, is_last) ==
    /\ sync[h].st = "idle"
    /\ next_id <= MaxChunks
    /\ next_id' = next_id + 1
    /\ LET b == sync[h].notifier IN
       IF b # 0 /\ snapshot_ch[b].open /\ ~IsParked(snapshot_ch[b], h)
       THEN /\ snapshot_ch' = [snapshot_ch EXCEPT ![b] =
                   do_send_b(@, h, StorageDataChunk(next_id, "States", last_index, is_last))]
            /\ sync' = [sync EXCEPT ![h].st = "sent", ![h].cur = next_id]
            /\ hist' = [hist EXCEPT ![next_id].pushed = TRUE,
                                    ![next_id].last_index = last_index]
       ELSE /\ hist' = [hist EXCEPT
                   ![next_id].ret = IF b = 0 THEN "uninitialized" ELSE "err",
                   ![next_id].error =
                       IF b = 0
                       THEN UnexpectedError(
                              "The state snapshot receiver has not been initialized!")
                       ELSE UnexpectedError(
                              "Failed to send storage data chunk to state snapshot listener")]
            /\ UNCHANGED <<max_pending_data_chunks, snapshot_ch, sync>>
    /\ UNCHANGED <<max_pending_data_chunks, pending_data_chunks, executor_ch,
                   ledger_updater_ch, committer_ch, post_processor_ch, tasks, driver,
                   fanout, storage_log, observed, chunk_executor, mock_vm, next_boot>>

\* The rest of save_state_values: the increment and Ok(()).
save_state_values_return(h) ==
    /\ sync[h].st = "sent"
    /\ pending_data_chunks' = increment_pending_data_chunks
    /\ hist' = [hist EXCEPT ![sync[h].cur].ret = "ok", ![sync[h].cur].incs = @ + 1]
    /\ sync' = [sync EXCEPT ![h].st = "idle", ![h].cur = 0]
    /\ UNCHANGED <<max_pending_data_chunks, channels, tasks, driver, fanout,
                   storage_log, observed, chunk_executor, mock_vm, next_id, next_boot>>

\* A reset_chunk_executor that also reports a failed reset on the error
\* channel; the frame property C17 must reject it.
reset_chunk_executor_notifying(h, ok) ==
    /\ sync[h].st = "idle"
    /\ chunk_executor.reset + chunk_executor.finish < MaxExecutorCalls
    /\ chunk_executor' = [chunk_executor EXCEPT
            !.reset = @ + 1,
            !.reset_ok = ok,
            !.result = IF ok THEN NoError
                       ELSE UnexpectedError("Failed to reset the chunk executor!")]
    /\ error_notifications' =
            IF ok THEN error_notifications ELSE send_storage_synchronizer_error(1)
    /\ UNCHANGED <<max_pending_data_chunks, sync, pending_data_chunks, channels, tasks,
                   error_listener, commit_notifications, commit_listener, fanout,
                   storage_log, observed, mock_vm, next_id, next_boot, hist>>

\* reset_chunk_executor: chunk_executor.reset() is called once, and its
\* error is returned as an UnexpectedError.
reset_chunk_executor(h, ok) ==
    /\ sync[h].st = "idle"
    /\ chunk_executor.reset + chunk_executor.finish < MaxExecutorCalls
    /\ chunk_executor' = [chunk_executor EXCEPT
            !.reset = @ + 1,
            !.reset_ok = ok,
            !.result = IF ok THEN NoError
                       ELSE UnexpectedError("Failed to reset the chunk executor!")]
    /\ UNCHANGED <<max_pending_data_chunks, sync, pending_data_chunks, channels, tasks,
                   driver, fanout, storage_log, observed, mock_vm, next_id, next_boot,
                   hist>>

\* finish_chunk_executor: chunk_executor.finish() is called once.
finish_chunk_executor(h) ==
    /\ sync[h].st = "idle"
    /\ chunk_executor.reset + chunk_executor.finish < MaxExecutorCalls
    /\ chunk_executor' = [chunk_executor EXCEPT !.finish = @ + 1]
    /\ UNCHANGED <<max_pending_data_chunks, sync, pending_data_chunks, channels, tasks,
                   driver, fanout, storage_log, observed, mock_vm, next_id, next_boot,
                   hist>>

\* Clone for StorageSynchronizer: the clone holds its own senders (never
\* parked at first) of the same channels.
clone(h, h2) ==
    /\ sync[h].st = "idle"
    /\ sync[h2].st = "unused"
    /\ sync' = [sync EXCEPT ![h2] = [st |-> "idle", notifier |-> sync[h].notifier, cur |-> 0]]
    /\ UNCHANGED <<max_pending_data_chunks, pending_data_chunks, channels, tasks,
                   driver, fanout, storage_log, observed, chunk_executor, mock_vm, next_id, next_boot, hist>>

\* A handle is dropped, and its senders with it.  A sender that is parked
\* stays in the channel's queue of parked senders.
drop(h) ==
    /\ sync[h].st = "idle"
    /\ sync' = [sync EXCEPT ![h].st = "dropped"]
    /\ UNCHANGED <<max_pending_data_chunks, pending_data_chunks, channels, tasks,
                   driver, fanout, storage_log, observed, chunk_executor, mock_vm, next_id, next_boot, hist>>

\* The driver drops the receiver of the error channel.
drop_error_listener ==
    /\ error_listener
    /\ error_listener' = FALSE
    /\ UNCHANGED <<max_pending_data_chunks, sync, pending_data_chunks, channels, tasks,
                   error_notifications, commit_notifications, commit_listener, fanout,
                   storage_log, observed, chunk_executor, mock_vm, next_id, next_boot, hist>>

\* The driver drops the receiver of the commit channel.
drop_commit_listener ==
    /\ commit_listener
    /\ commit_listener' = FALSE
    /\ UNCHANGED <<max_pending_data_chunks, sync, pending_data_chunks, channels, tasks,
                   error_notifications, commit_notifications, error_listener, fanout,
                   storage_log, observed, chunk_executor, mock_vm, next_id, next_boot, hist>>

\* ------------------------------------------------------------- executor
\* An executor that takes the next chunk only when the later stages are
\* idle and their channels empty; the pipelining property C31 must reject
\* it.
executor_recv_serialized ==
    /\ executor.pc = "recv"
    /\ executor_ch.q # <<>>
    /\ ledger_updater.pc = "recv" /\ committer.pc = "recv" /\ post_processor.pc = "recv"
    /\ ledger_updater_ch.q = <<>> /\ committer_ch.q = <<>> /\ post_processor_ch.q = <<>>
    /\ LET chunk == Head(executor_ch.q) IN
       IF chunk.kind = "States"
       THEN /\ executor' = Done
            /\ executor_ch' = drop_receiver(executor_ch)
            /\ UNCHANGED hist
       ELSE /\ executor' = [pc |-> "call", cur |-> chunk]
            /\ executor_ch' = next_message(executor_ch)
            /\ hist' = [hist EXCEPT ![chunk.id].enq = "started"]
    /\ UNCHANGED <<max_pending_data_chunks, sync, pending_data_chunks,
                   ledger_updater_ch, committer_ch, post_processor_ch, snapshot_ch,
                   ledger_updater, committer, post_processor, receiver, target_version,
                   driver, fanout, storage_log, observed, chunk_executor, mock_vm,
                   next_id, next_boot>>

\* An executor that takes the next chunk and starts its call while the call
\* of the chunk before is still running; the property C30 must reject it.
executor_recv_overlapping ==
    /\ executor.pc \in {"recv", "call"}
    /\ executor_ch.q # <<>>
    /\ LET chunk == Head(executor_ch.q) IN
       IF chunk.kind = "States"
       THEN /\ executor' = Done
            /\ executor_ch' = drop_receiver(executor_ch)
            /\ UNCHANGED hist
       ELSE /\ executor' = [pc |-> "call", cur |-> chunk]
            /\ executor_ch' = next_message(executor_ch)
            /\ hist' = [hist EXCEPT ![chunk.id].enq = "started"]
    /\ UNCHANGED <<max_pending_data_chunks, sync, pending_data_chunks,
                   ledger_updater_ch, committer_ch, post_processor_ch, snapshot_ch,
                   ledger_updater, committer, post_processor, receiver, target_version,
                   driver, fanout, storage_log, observed, chunk_executor, mock_vm,
                   next_id, next_boot>>

\* executor_listener.next() yields a chunk: a States chunk ends the loop
\* (the task returns and drops its receiver), any other chunk is handed to
\* the chunk executor on a blocking thread.
executor_recv ==
    /\ executor.pc = "recv"
    /\ executor_ch.q # <<>>
    /\ LET chunk == Head(executor_ch.q) IN
       IF chunk.kind = "States"
       THEN /\ executor' = Done
            /\ executor_ch' = drop_receiver(executor_ch)
            /\ UNCHANGED hist
       ELSE /\ executor' = [pc |-> "call", cur |-> chunk]
            /\ executor_ch' = next_message(executor_ch)
            /\ hist' = [hist EXCEPT ![chunk.id].enq = "started"]
    /\ UNCHANGED <<max_pending_data_chunks, sync, pending_data_chunks,
                   ledger_updater_ch, committer_ch, post_processor_ch, snapshot_ch,
                   ledger_updater, committer, post_processor, receiver, target_version,
                   driver, fanout, storage_log, observed, chunk_executor, mock_vm, next_id, next_boot>>

\* An executor task that ends as soon as its channel is empty, whether or not
\* a handle is left; the shutdown property C18 must reject it.
executor_exit_early ==
    /\ executor.pc = "recv"
    /\ executor_ch.q = <<>>
    /\ executor' = Done
    /\ executor_ch' = drop_receiver(executor_ch)
    /\ UNCHANGED <<max_pending_data_chunks, sync, pending_data_chunks,
                   ledger_updater_ch, committer_ch, post_processor_ch, snapshot_ch,
                   ledger_updater, committer, post_processor, receiver, target_version,
                   driver, fanout, storage_log, observed, chunk_executor, mock_vm, next_id,
                   next_boot, hist>>

\* executor_listener.next() yields None: every sender has been dropped and
\* the queue is empty.  The loop ends.
executor_exit ==
    /\ executor.pc = "recv"
    /\ executor_ch.q = <<>>
    /\ ExecutorSenders = {}
    /\ executor' = Done
    /\ executor_ch' = drop_receiver(executor_ch)
    /\ UNCHANGED <<max_pending_data_chunks, sync, pending_data_chunks,
                   ledger_updater_ch, committer_ch, post_processor_ch, snapshot_ch,
                   ledger_updater, committer, post_processor, receiver, target_version,
                   driver, fanout, storage_log, observed, chunk_executor, mock_vm, next_id, next_boot, hist>>

\* enqueue_chunk_by_execution / enqueue_chunk_by_transaction_outputs returned
\* Ok: the id is sent to the ledger updater; when that send fails (the
\* ledger updater is gone) the error is reported.
executor_ok ==
    /\ executor.pc = "call"
    /\ LET id == executor.cur.id IN
       IF ledger_updater_ch.open
       THEN /\ ledger_updater_ch' = do_send_b(ledger_updater_ch, "executor", StageMessage(id))
            /\ executor' = [executor EXCEPT !.pc = "flush"]
            /\ hist' = [hist EXCEPT ![id].enq = "ok"]
            /\ UNCHANGED error_notifications
       ELSE /\ error_notifications' = send_storage_synchronizer_error(id)
            /\ executor' = [executor EXCEPT !.pc = "dec"]
            /\ hist' = [hist EXCEPT ![id].enq = "ok", ![id].failed = TRUE]
            /\ UNCHANGED ledger_updater_ch
    /\ UNCHANGED <<max_pending_data_chunks, sync, pending_data_chunks, executor_ch,
                   committer_ch, post_processor_ch, snapshot_ch, ledger_updater,
                   committer, post_processor, receiver, target_version, error_listener,
                   commit_notifications, commit_listener, fanout, storage_log,
                   observed, chunk_executor, mock_vm, next_id, next_boot>>

\* The executor call returned Err: the error is reported.
\* An executor that gives up when the error receiver is gone instead of only
\* logging the failed delivery; the property C33 must reject it.
executor_err_unwrapping ==
    /\ executor.pc = "call"
    /\ error_notifications' = send_storage_synchronizer_error(executor.cur.id)
    /\ executor' = [executor EXCEPT !.pc = IF error_listener THEN "dec" ELSE "panicked"]
    /\ hist' = [hist EXCEPT ![executor.cur.id].enq = "err", ![executor.cur.id].failed = TRUE]
    /\ UNCHANGED <<max_pending_data_chunks, sync, pending_data_chunks, channels,
                   ledger_updater, committer, post_processor, receiver, target_version,
                   error_listener, commit_notifications, commit_listener, fanout,
                   storage_log, observed, chunk_executor, mock_vm, next_id, next_boot>>

executor_err ==
    /\ executor.pc = "call"
    /\ error_notifications' = send_storage_synchronizer_error(executor.cur.id)
    /\ executor' = [executor EXCEPT !.pc = "dec"]
    /\ hist' = [hist EXCEPT ![executor.cur.id].enq = "err", ![executor.cur.id].failed = TRUE]
    /\ UNCHANGED <<max_pending_data_chunks, sync, pending_data_chunks, channels,
                   ledger_updater, committer, post_processor, receiver, target_version,
                   error_listener, commit_notifications, commit_listener, fanout,
                   storage_log, observed, chunk_executor, mock_vm, next_id, next_boot>>

\* The blocking call panicked: the join fails, the expect panics and the
\* task ends, dropping its receiver and its sender.
executor_panic ==
    /\ executor.pc = "call"
    /\ executor' = Panicked(executor.cur)
    /\ executor_ch' = drop_receiver(executor_ch)
    /\ UNCHANGED <<max_pending_data_chunks, sync, pending_data_chunks,
                   ledger_updater_ch, committer_ch, post_processor_ch, snapshot_ch,
                   ledger_updater, committer, post_processor, receiver, target_version,
                   driver, fanout, storage_log, observed, chunk_executor, mock_vm, next_id, next_boot, hist>>

\* The send to the ledger updater completes: its flush waits until the
\* sender is not parked.
executor_flush ==
    /\ executor.pc = "flush"
    /\ ~IsParked(ledger_updater_ch, "executor")
    /\ executor' = Idle
    /\ UNCHANGED <<max_pending_data_chunks, sync, pending_data_chunks, channels,
                   ledger_updater, committer, post_processor, receiver, target_version,
                   driver, fanout, storage_log, observed, chunk_executor, mock_vm, next_id, next_boot, hist>>

\* An executor that stops after a reported error instead of taking the next
\* chunk; the progress property C7 must reject it.
executor_dec_and_stop ==
    /\ executor.pc = "dec"
    /\ pending_data_chunks' = decrement_pending_data_chunks
    /\ hist' = [hist EXCEPT ![executor.cur.id].decs = @ + 1]
    /\ executor' = Done
    /\ UNCHANGED <<max_pending_data_chunks, sync, channels, ledger_updater, committer,
                   post_processor, receiver, target_version, driver, fanout,
                   storage_log, observed, chunk_executor, mock_vm, next_id, next_boot>>

\* decrement_pending_data_chunks after a reported error.
executor_dec ==
    /\ executor.pc = "dec"
    /\ pending_data_chunks' = decrement_pending_data_chunks
    /\ hist' = [hist EXCEPT ![executor.cur.id].decs = @ + 1]
    /\ executor' = Idle
    /\ UNCHANGED <<max_pending_data_chunks, sync, channels, ledger_updater, committer,
                   post_processor, receiver, target_version, driver, fanout,
                   storage_log, observed, chunk_executor, mock_vm, next_id, next_boot>>

\* ------------------------------------------------------------- ledger updater
ledger_updater_recv ==
    /\ ledger_updater.pc = "recv"
    /\ ledger_updater_ch.q # <<>>
    /\ ledger_updater' = [pc |-> "call", cur |-> Head(ledger_updater_ch.q)]
    /\ ledger_updater_ch' = next_message(ledger_updater_ch)
    /\ hist' = [hist EXCEPT ![Head(ledger_updater_ch.q).id].upd = "started"]
    /\ UNCHANGED <<max_pending_data_chunks, sync, pending_data_chunks, executor_ch,
                   committer_ch, post_processor_ch, snapshot_ch, executor, committer,
                   post_processor, receiver, target_version, driver, fanout,
                   storage_log, observed, chunk_executor, mock_vm, next_id, next_boot>>

\* A ledger updater that returns as soon as the executor has ended, leaving
\* what is queued for it; the drain property C38 must reject it.
ledger_updater_exit_abandoning ==
    /\ ledger_updater.pc = "recv"
    /\ Ended(executor)
    /\ ledger_updater' = Done
    /\ ledger_updater_ch' = drop_receiver(ledger_updater_ch)
    /\ UNCHANGED <<max_pending_data_chunks, sync, pending_data_chunks, executor_ch,
                   committer_ch, post_processor_ch, snapshot_ch, executor, committer,
                   post_processor, receiver, target_version, driver, fanout,
                   storage_log, observed, chunk_executor, mock_vm, next_id, next_boot, hist>>

ledger_updater_exit ==
    /\ ledger_updater.pc = "recv"
    /\ ledger_updater_ch.q = <<>>
    /\ Ended(executor)
    /\ ledger_updater' = Done
    /\ ledger_updater_ch' = drop_receiver(ledger_updater_ch)
    /\ UNCHANGED <<max_pending_data_chunks, sync, pending_data_chunks, executor_ch,
                   committer_ch, post_processor_ch, snapshot_ch, executor, committer,
                   post_processor, receiver, target_version, driver, fanout,
                   storage_log, observed, chunk_executor, mock_vm, next_id, next_boot, hist>>

\* update_ledger returned Ok: the id is sent to the committer.
ledger_updater_ok ==
    /\ ledger_updater.pc = "call"
    /\ LET id == ledger_updater.cur.id IN
       IF committer_ch.open
       THEN /\ committer_ch' = do_send_b(committer_ch, "ledger_updater", StageMessage(id))
            /\ ledger_updater' = [ledger_updater EXCEPT !.pc = "flush"]
            /\ hist' = [hist EXCEPT ![id].upd = "ok"]
            /\ UNCHANGED error_notifications
       ELSE /\ error_notifications' = send_storage_synchronizer_error(id)
            /\ ledger_updater' = [ledger_updater EXCEPT !.pc = "dec"]
            /\ hist' = [hist EXCEPT ![id].upd = "ok", ![id].failed = TRUE]
            /\ UNCHANGED committer_ch
    /\ UNCHANGED <<max_pending_data_chunks, sync, pending_data_chunks, executor_ch,
                   ledger_updater_ch, post_processor_ch, snapshot_ch, executor,
                   committer, post_processor, receiver, target_version, error_listener,
                   commit_notifications, commit_listener, fanout, storage_log,
                   observed, chunk_executor, mock_vm, next_id, next_boot>>

\* A ledger updater that passes a chunk on to the committer although
\* update_ledger failed; the stage-order property C5 must reject it.
ledger_updater_err_forwarded ==
    /\ ledger_updater.pc = "call"
    /\ committer_ch.open
    /\ committer_ch' = do_send_b(committer_ch, "ledger_updater",
                                 StageMessage(ledger_updater.cur.id))
    /\ ledger_updater' = [ledger_updater EXCEPT !.pc = "flush"]
    /\ hist' = [hist EXCEPT ![ledger_updater.cur.id].upd = "err"]
    /\ UNCHANGED <<max_pending_data_chunks, sync, pending_data_chunks, executor_ch,
                   ledger_updater_ch, post_processor_ch, snapshot_ch, executor,
                   committer, post_processor, receiver, target_version, driver,
                   fanout, storage_log, observed, chunk_executor, mock_vm, next_id, next_boot>>

\* update_ledger returned Err: the error is reported.
ledger_updater_err ==
    /\ ledger_updater.pc = "call"
    /\ error_notifications' = send_storage_synchronizer_error(ledger_updater.cur.id)
    /\ ledger_updater' = [ledger_updater EXCEPT !.pc = "dec"]
    /\ hist' = [hist EXCEPT ![ledger_updater.cur.id].upd = "err",
                            ![ledger_updater.cur.id].failed = TRUE]
    /\ UNCHANGED <<max_pending_data_chunks, sync, pending_data_chunks, channels,
                   executor, committer, post_processor, receiver, target_version,
                   error_listener, commit_notifications, commit_listener, fanout,
                   storage_log, observed, chunk_executor, mock_vm, next_id, next_boot>>

ledger_updater_panic ==
    /\ ledger_updater.pc = "call"
    /\ ledger_updater' = Panicked(ledger_updater.cur)
    /\ ledger_updater_ch' = drop_receiver(ledger_updater_ch)
    /\ UNCHANGED <<max_pending_data_chunks, sync, pending_data_chunks, executor_ch,
                   committer_ch, post_processor_ch, snapshot_ch, executor, committer,
                   post_processor, receiver, target_version, driver, fanout,
                   storage_log, observed, chunk_executor, mock_vm, next_id, next_boot, hist>>

ledger_updater_flush ==
    /\ ledger_updater.pc = "flush"
    /\ ~IsParked(committer_ch, "ledger_updater")
    /\ ledger_updater' = Idle
    /\ UNCHANGED <<max_pending_data_chunks, sync, pending_data_chunks, channels,
                   executor, committer, post_processor, receiver, target_version,
                   driver, fanout, storage_log, observed, chunk_executor, mock_vm, next_id, next_boot, hist>>

ledger_updater_dec ==
    /\ ledger_updater.pc = "dec"
    /\ pending_data_chunks' = decrement_pending_data_chunks
    /\ hist' = [hist EXCEPT ![ledger_updater.cur.id].decs = @ + 1]
    /\ ledger_updater' = Idle
    /\ UNCHANGED <<max_pending_data_chunks, sync, channels, executor, committer,
                   post_processor, receiver, target_version, driver, fanout,
                   storage_log, observed, chunk_executor, mock_vm, next_id, next_boot>>

\* ------------------------------------------------------------- committer
committer_recv ==
    /\ committer.pc = "recv"
    /\ committer_ch.q # <<>>
    /\ committer' = [pc |-> "call", cur |-> Head(committer_ch.q)]
    /\ committer_ch' = next_message(committer_ch)
    /\ hist' = [hist EXCEPT ![Head(committer_ch.q).id].com = "started"]
    /\ UNCHANGED <<max_pending_data_chunks, sync, pending_data_chunks, executor_ch,
                   ledger_updater_ch, post_processor_ch, snapshot_ch, executor,
                   ledger_updater, post_processor, receiver, target_version, driver,
                   fanout, storage_log, observed, chunk_executor, mock_vm, next_id, next_boot>>

committer_exit ==
    /\ committer.pc = "recv"
    /\ committer_ch.q = <<>>
    /\ Ended(ledger_updater)
    /\ committer' = Done
    /\ committer_ch' = drop_receiver(committer_ch)
    /\ UNCHANGED <<max_pending_data_chunks, sync, pending_data_chunks, executor_ch,
                   ledger_updater_ch, post_processor_ch, snapshot_ch, executor,
                   ledger_updater, post_processor, receiver, target_version, driver,
                   fanout, storage_log, observed, chunk_executor, mock_vm, next_id, next_boot, hist>>

\* commit_chunk returned Ok(notification): the notification is sent to the
\* commit post-processor.
committer_ok ==
    /\ committer.pc = "call"
    /\ LET id == committer.cur.id IN
       IF post_processor_ch.open
       THEN /\ post_processor_ch' = do_send_b(post_processor_ch, "committer", StageMessage(id))
            /\ committer' = [committer EXCEPT !.pc = "flush"]
            /\ hist' = [hist EXCEPT ![id].com = "ok"]
            /\ UNCHANGED error_notifications
       ELSE /\ error_notifications' = send_storage_synchronizer_error(id)
            /\ committer' = [committer EXCEPT !.pc = "dec"]
            /\ hist' = [hist EXCEPT ![id].com = "ok", ![id].failed = TRUE]
            /\ UNCHANGED post_processor_ch
    /\ UNCHANGED <<max_pending_data_chunks, sync, pending_data_chunks, executor_ch,
                   ledger_updater_ch, committer_ch, snapshot_ch, executor,
                   ledger_updater, post_processor, receiver, target_version,
                   error_listener, commit_notifications, commit_listener, fanout,
                   storage_log, observed, chunk_executor, mock_vm, next_id, next_boot>>

\* A committer that passes a chunk on to the commit post-processor although
\* commit_chunk failed; the drop property C21 must reject it.
committer_err_forwarded ==
    /\ committer.pc = "call"
    /\ post_processor_ch.open
    /\ post_processor_ch' = do_send_b(post_processor_ch, "committer",
                                      StageMessage(committer.cur.id))
    /\ committer' = [committer EXCEPT !.pc = "flush"]
    /\ hist' = [hist EXCEPT ![committer.cur.id].com = "err", ![committer.cur.id].failed = TRUE]
    /\ UNCHANGED <<max_pending_data_chunks, sync, pending_data_chunks, executor_ch,
                   ledger_updater_ch, committer_ch, snapshot_ch, executor,
                   ledger_updater, post_processor, receiver, target_version, driver,
                   fanout, storage_log, observed, chunk_executor, mock_vm, next_id, next_boot>>

\* commit_chunk returned Err: the error is reported.
committer_err ==
    /\ committer.pc = "call"
    /\ error_notifications' = send_storage_synchronizer_error(committer.cur.id)
    /\ committer' = [committer EXCEPT !.pc = "dec"]
    /\ hist' = [hist EXCEPT ![committer.cur.id].com = "err", ![committer.cur.id].failed = TRUE]
    /\ UNCHANGED <<max_pending_data_chunks, sync, pending_data_chunks, channels,
                   executor, ledger_updater, post_processor, receiver, target_version,
                   error_listener, commit_notifications, commit_listener, fanout,
                   storage_log, observed, chunk_executor, mock_vm, next_id, next_boot>>

committer_panic ==
    /\ committer.pc = "call"
    /\ committer' = Panicked(committer.cur)
    /\ committer_ch' = drop_receiver(committer_ch)
    /\ UNCHANGED <<max_pending_data_chunks, sync, pending_data_chunks, executor_ch,
                   ledger_updater_ch, post_processor_ch, snapshot_ch, executor,
                   ledger_updater, post_processor, receiver, target_version, driver,
                   fanout, storage_log, observed, chunk_executor, mock_vm, next_id, next_boot, hist>>

committer_flush ==
    /\ committer.pc = "flush"
    /\ ~IsParked(post_processor_ch, "committer")
    /\ committer' = Idle
    /\ UNCHANGED <<max_pending_data_chunks, sync, pending_data_chunks, channels,
                   executor, ledger_updater, post_processor, receiver, target_version,
                   driver, fanout, storage_log, observed, chunk_executor, mock_vm, next_id, next_boot, hist>>

committer_dec ==
    /\ committer.pc = "dec"
    /\ pending_data_chunks' = decrement_pending_data_chunks
    /\ hist' = [hist EXCEPT ![committer.cur.id].decs = @ + 1]
    /\ committer' = Idle
    /\ UNCHANGED <<max_pending_data_chunks, sync, channels, executor, ledger_updater,
                   post_processor, receiver, target_version, driver, fanout,
                   storage_log, observed, chunk_executor, mock_vm, next_id, next_boot>>

\* ------------------------------------------------------------- commit post-processor
post_processor_recv ==
    /\ post_processor.pc = "recv"
    /\ post_processor_ch.q # <<>>
    /\ post_processor' = [pc |-> "call", cur |-> Head(post_processor_ch.q)]
    /\ post_processor_ch' = next_message(post_processor_ch)
    /\ UNCHANGED <<max_pending_data_chunks, sync, pending_data_chunks, executor_ch,
                   ledger_updater_ch, committer_ch, snapshot_ch, executor,
                   ledger_updater, committer, receiver, target_version, driver, fanout,
                   storage_log, observed, chunk_executor, mock_vm, next_id, next_boot, hist>>

post_processor_exit ==
    /\ post_processor.pc = "recv"
    /\ post_processor_ch.q = <<>>
    /\ Ended(committer)
    /\ post_processor' = Done
    /\ post_processor_ch' = drop_receiver(post_processor_ch)
    /\ UNCHANGED <<max_pending_data_chunks, sync, pending_data_chunks, executor_ch,
                   ledger_updater_ch, committer_ch, snapshot_ch, executor,
                   ledger_updater, committer, receiver, target_version, driver, fanout,
                   storage_log, observed, chunk_executor, mock_vm, next_id, next_boot, hist>>

\* A post-processor that reports a failed sink to the driver and skips the
\* decrement; the fan-out property C32 must reject it.
post_processor_fanout_reporting ==
    /\ post_processor.pc = "call"
    /\ fanout' = Append(fanout, post_processor.cur.id)
    /\ \E sinks_ok \in BOOLEAN :
          IF sinks_ok
          THEN /\ post_processor' = [post_processor EXCEPT !.pc = "dec"]
               /\ UNCHANGED driver
          ELSE /\ post_processor' = Idle
               /\ error_notifications' = send_storage_synchronizer_error(post_processor.cur.id)
               /\ UNCHANGED <<error_listener, commit_notifications, commit_listener>>
    /\ UNCHANGED <<max_pending_data_chunks, sync, pending_data_chunks, channels,
                   executor, ledger_updater, committer, receiver, target_version,
                   storage_log, observed, chunk_executor, mock_vm, next_id, next_boot, hist>>

\* utils::handle_committed_transactions returned; it returns no value, so
\* whether the sinks succeeded (sinks_ok) has no effect on what follows.
post_processor_fanout ==
    /\ post_processor.pc = "call"
    /\ \E sinks_ok \in BOOLEAN : fanout' = Append(fanout, post_processor.cur.id)
    /\ post_processor' = [post_processor EXCEPT !.pc = "dec"]
    /\ UNCHANGED <<max_pending_data_chunks, sync, pending_data_chunks, channels,
                   executor, ledger_updater, committer, receiver, target_version,
                   driver, storage_log, observed, chunk_executor, mock_vm, next_id, next_boot, hist>>

\* A post-processor that forgets the decrement; the liveness property C8
\* must reject it.
post_processor_dec_forgotten ==
    /\ post_processor.pc = "dec"
    /\ post_processor' = Idle
    /\ UNCHANGED <<max_pending_data_chunks, sync, pending_data_chunks, channels,
                   executor, ledger_updater, committer, receiver, target_version,
                   driver, fanout, storage_log, observed, chunk_executor, mock_vm, next_id, next_boot, hist>>

\* decrement_pending_data_chunks after the fan-out.
post_processor_dec ==
    /\ post_processor.pc = "dec"
    /\ pending_data_chunks' = decrement_pending_data_chunks
    /\ hist' = [hist EXCEPT ![post_processor.cur.id].decs = @ + 1]
    /\ post_processor' = Idle
    /\ UNCHANGED <<max_pending_data_chunks, sync, channels, executor, ledger_updater,
                   committer, receiver, target_version, driver, fanout, storage_log,
                   observed, chunk_executor, mock_vm, next_id, next_boot>>

\* ------------------------------------------------------------- state snapshot receiver
\* One call on the storage writer, the metadata storage, the snapshot
\* receiver or the chunk executor, as the bootstrap's log records it.
Call(name, id, index, last, ok) ==
    [call |-> name, id |-> id, index |-> index, last |-> last, ok |-> ok]

\* The versions initialize_state_synchronizer is called with.
TargetVersions == {100, 200}

\* The task starts: the expected root hash is read from the target output
\* and storage.writer.get_state_snapshot_receiver returns the receiver.
receiver_start(b) ==
    /\ receiver[b].pc = "start"
    /\ receiver' = [receiver EXCEPT ![b].pc = "recv"]
    /\ storage_log' = [storage_log EXCEPT ![b] =
            Append(@, Call("get_state_snapshot_receiver", 0, target_version[b], FALSE, TRUE))]
    /\ UNCHANGED <<max_pending_data_chunks, sync, pending_data_chunks, channels,
                   pipeline_tasks, target_version, driver, fanout, observed, chunk_executor, mock_vm, next_id,
                   next_boot, hist>>

\* One of the expects at the start of the task panics (no transaction
\* info, no state checkpoint hash, or no snapshot receiver from storage):
\* the task ends and drops its listener.
receiver_start_panic(b) ==
    /\ receiver[b].pc = "start"
    /\ receiver' = [receiver EXCEPT ![b] = Panicked(NoChunk)]
    /\ snapshot_ch' = [snapshot_ch EXCEPT ![b] = drop_receiver(@)]
    /\ UNCHANGED <<max_pending_data_chunks, sync, pending_data_chunks, executor_ch,
                   ledger_updater_ch, committer_ch, post_processor_ch, pipeline_tasks,
                   target_version, driver, fanout, storage_log, observed, chunk_executor, mock_vm, next_id,
                   next_boot, hist>>

\* state_snapshot_listener.next() yields a chunk; a chunk that is not
\* States is logged and falls through to the decrement at the end of the
\* loop body.
receiver_recv(b) ==
    /\ receiver[b].pc = "recv"
    /\ snapshot_ch[b].q # <<>>
    /\ LET chunk == Head(snapshot_ch[b].q) IN
       receiver' = [receiver EXCEPT ![b] =
            [pc |-> IF chunk.kind = "States" THEN "add" ELSE "dec", cur |-> chunk]]
    /\ snapshot_ch' = [snapshot_ch EXCEPT ![b] = next_message(@)]
    /\ UNCHANGED <<max_pending_data_chunks, sync, pending_data_chunks, executor_ch,
                   ledger_updater_ch, committer_ch, post_processor_ch, pipeline_tasks,
                   target_version, driver, fanout, storage_log, observed, chunk_executor, mock_vm, next_id,
                   next_boot, hist>>

\* state_snapshot_listener.next() yields None.
receiver_exit(b) ==
    /\ receiver[b].pc = "recv"
    /\ snapshot_ch[b].q = <<>>
    /\ SnapshotSenders(b) = {}
    /\ receiver' = [receiver EXCEPT ![b] = Done]
    /\ snapshot_ch' = [snapshot_ch EXCEPT ![b] = drop_receiver(@)]
    /\ UNCHANGED <<max_pending_data_chunks, sync, pending_data_chunks, executor_ch,
                   ledger_updater_ch, committer_ch, post_processor_ch, pipeline_tasks,
                   target_version, driver, fanout, storage_log, observed, chunk_executor, mock_vm, next_id,
                   next_boot, hist>>

\* A receiver task that gives up the bootstrap when add_chunk fails for the
\* chunk flagged last; the property C27 must reject it.
receiver_add_chunk_err_giving_up(b) ==
    /\ receiver[b].pc = "add"
    /\ LET c == receiver[b].cur IN
       /\ storage_log' = [storage_log EXCEPT ![b] =
               Append(@, Call("add_chunk", c.id, c.last_index, c.is_last, FALSE))]
       /\ error_notifications' = send_storage_synchronizer_error(c.id)
       /\ hist' = [hist EXCEPT ![c.id].add = "err", ![c.id].failed = TRUE]
    /\ receiver' = [receiver EXCEPT ![b].pc =
                        IF receiver[b].cur.is_last THEN "dec_last" ELSE "dec"]
    /\ UNCHANGED <<max_pending_data_chunks, sync, pending_data_chunks, channels,
                   pipeline_tasks, target_version, error_listener,
                   commit_notifications, commit_listener, fanout, observed,
                   chunk_executor, mock_vm, next_id, next_boot>>

\* add_chunk returned Err: the error is reported, and the loop body ends
\* with the decrement.
receiver_add_chunk_err(b) ==
    /\ receiver[b].pc = "add"
    /\ LET c == receiver[b].cur IN
       /\ storage_log' = [storage_log EXCEPT ![b] =
               Append(@, Call("add_chunk", c.id, c.last_index, c.is_last, FALSE))]
       /\ error_notifications' = send_storage_synchronizer_error(c.id)
       /\ hist' = [hist EXCEPT ![c.id].add = "err", ![c.id].failed = TRUE]
    /\ receiver' = [receiver EXCEPT ![b].pc = "dec"]
    /\ UNCHANGED <<max_pending_data_chunks, sync, pending_data_chunks, channels,
                   pipeline_tasks, target_version, error_listener,
                   commit_notifications, commit_listener, fanout, observed, chunk_executor, mock_vm, next_id,
                   next_boot>>

\* A receiver that does not write the last persisted index of a chunk that
\* is not the last; the property C24 must reject it.
receiver_add_chunk_unrecorded(b, meta_ok) ==
    /\ receiver[b].pc = "add"
    /\ ~receiver[b].cur.is_last
    /\ LET c == receiver[b].cur IN
       /\ storage_log' = [storage_log EXCEPT ![b] =
               Append(@, Call("add_chunk", c.id, c.last_index, c.is_last, TRUE))]
       /\ hist' = [hist EXCEPT ![c.id].add = "ok"]
    /\ receiver' = [receiver EXCEPT ![b].pc = "dec"]
    /\ UNCHANGED <<max_pending_data_chunks, sync, pending_data_chunks, channels,
                   pipeline_tasks, target_version, driver, fanout, observed,
                   chunk_executor, mock_vm, next_id, next_boot>>

\* add_chunk returned Ok for a chunk that is not the last: the last
\* persisted index is written to the metadata storage (an error of that
\* write is reported), then the counter is decremented.
receiver_add_chunk(b, meta_ok) ==
    /\ receiver[b].pc = "add"
    /\ ~receiver[b].cur.is_last
    /\ LET c == receiver[b].cur IN
       /\ storage_log' = [storage_log EXCEPT ![b] =
               @ \o << Call("add_chunk", c.id, c.last_index, c.is_last, TRUE),
                       Call("update_last_persisted_state_value_index",
                            c.id, c.last_index, FALSE, meta_ok) >>]
       /\ error_notifications' =
               IF meta_ok THEN error_notifications ELSE send_storage_synchronizer_error(c.id)
       /\ hist' = [hist EXCEPT ![c.id].add = "ok", ![c.id].failed = ~meta_ok]
    /\ receiver' = [receiver EXCEPT ![b].pc = "dec"]
    /\ UNCHANGED <<max_pending_data_chunks, sync, pending_data_chunks, channels,
                   pipeline_tasks, target_version, error_listener,
                   commit_notifications, commit_listener, fanout, observed, chunk_executor, mock_vm, next_id,
                   next_boot>>

\* A finalization that resets the chunk executor before it writes the last
\* persisted index; the order property C25 must reject it.
FinalizeStepsResetFirst == << "finish_box", "finalize_state_snapshot", "reset",
                             "update_last_persisted_state_value_index",
                             "send_commit_notification", "initialize_sync_gauges" >>

\* The steps of finalize_storage_and_send_commit, in order.
FinalizeSteps == << "finish_box", "finalize_state_snapshot",
                    "update_last_persisted_state_value_index", "reset",
                    "send_commit_notification", "initialize_sync_gauges" >>

\* The step at which finalize_storage_and_send_commit fails (0: none) when
\* the calls would fail at step f: the send of the commit notification
\* fails exactly when the driver has dropped the commit receiver.
FailingStep(f) ==
    IF f \in 1..4 THEN f
    ELSE IF ~commit_listener THEN 5
    ELSE f

\* A finalization that goes on to the later steps after step f failed; the
\* abort property C26 must reject it.
FinalizeCallsContinuing(c, f) ==
    [k \in 1..Len(FinalizeSteps) |->
        Call(FinalizeSteps[k], c.id, c.last_index, TRUE, k # f)]

\* The calls finalize_storage_and_send_commit makes when it fails at step
\* f (0: it makes them all): every step before f succeeds, step f fails
\* and no later step is made.
FinalizeCalls(c, f) ==
    [k \in 1..(IF f = 0 THEN Len(FinalizeSteps) ELSE f) |->
        Call(FinalizeSteps[k], c.id, c.last_index, TRUE, k # f)]

\* create_commit_notification
create_commit_notification(last_committed_state_index, version) ==
    [last_committed_index |-> last_committed_state_index, version |-> version]

\* add_chunk returned Ok for the last chunk: finalize_storage_and_send_commit
\* runs, an error of it is reported.
receiver_finalize(b, f) ==
    /\ receiver[b].pc = "add"
    /\ receiver[b].cur.is_last
    /\ LET c == receiver[b].cur
           fail == FailingStep(f) IN
       /\ storage_log' = [storage_log EXCEPT ![b] =
               (@ \o << Call("add_chunk", c.id, c.last_index, c.is_last, TRUE) >>)
                  \o FinalizeCalls(c, fail)]
       /\ commit_notifications' =
               IF fail \in {0, 6}
               THEN Append(commit_notifications,
                           create_commit_notification(c.last_index, target_version[b]))
               ELSE commit_notifications
       /\ error_notifications' =
               IF fail = 0 THEN error_notifications ELSE send_storage_synchronizer_error(c.id)
       /\ hist' = [hist EXCEPT ![c.id].add = "ok", ![c.id].failed = (fail # 0)]
    /\ receiver' = [receiver EXCEPT ![b].pc = "dec_last"]
    /\ UNCHANGED <<max_pending_data_chunks, sync, pending_data_chunks, channels,
                   pipeline_tasks, target_version, error_listener, commit_listener,
                   fanout, observed, chunk_executor, mock_vm, next_id, next_boot>>

\* decrement_pending_data_chunks at the end of the loop body (or before
\* the continue).
receiver_dec(b) ==
    /\ receiver[b].pc = "dec"
    /\ pending_data_chunks' = decrement_pending_data_chunks
    /\ hist' = [hist EXCEPT ![receiver[b].cur.id].decs = @ + 1]
    /\ receiver' = [receiver EXCEPT ![b] = Idle]
    /\ UNCHANGED <<max_pending_data_chunks, sync, channels, pipeline_tasks,
                   target_version, driver, fanout, storage_log, observed, chunk_executor, mock_vm, next_id,
                   next_boot>>

\* A receiver task that goes on to the next chunk after the finalization;
\* the metadata property C15 must reject it.
receiver_dec_last_and_continue(b) ==
    /\ receiver[b].pc = "dec_last"
    /\ pending_data_chunks' = decrement_pending_data_chunks
    /\ hist' = [hist EXCEPT ![receiver[b].cur.id].decs = @ + 1]
    /\ receiver' = [receiver EXCEPT ![b] = Idle]
    /\ UNCHANGED <<max_pending_data_chunks, sync, channels, pipeline_tasks,
                   target_version, driver, fanout, storage_log, observed, chunk_executor, mock_vm, next_id,
                   next_boot>>

\* A receiver task that returns after the finalization without the
\* decrement; the termination property C28 must reject it.
receiver_return_undecremented(b) ==
    /\ receiver[b].pc = "dec_last"
    /\ receiver' = [receiver EXCEPT ![b] = Done]
    /\ snapshot_ch' = [snapshot_ch EXCEPT ![b] = drop_receiver(@)]
    /\ UNCHANGED <<max_pending_data_chunks, sync, pending_data_chunks, executor_ch,
                   ledger_updater_ch, committer_ch, post_processor_ch, pipeline_tasks,
                   target_version, driver, fanout, storage_log, observed,
                   chunk_executor, mock_vm, next_id, next_boot, hist>>

\* decrement_pending_data_chunks after the finalization, and the return:
\* the task ends and drops its listener.
receiver_dec_last(b) ==
    /\ receiver[b].pc = "dec_last"
    /\ pending_data_chunks' = decrement_pending_data_chunks
    /\ hist' = [hist EXCEPT ![receiver[b].cur.id].decs = @ + 1]
    /\ receiver' = [receiver EXCEPT ![b] = Done]
    /\ snapshot_ch' = [snapshot_ch EXCEPT ![b] = drop_receiver(@)]
    /\ UNCHANGED <<max_pending_data_chunks, sync, executor_ch, ledger_updater_ch,
                   committer_ch, post_processor_ch, pipeline_tasks, target_version,
                   driver, fanout, storage_log, observed, chunk_executor, mock_vm, next_id, next_boot>>

\* ------------------------------------------------------------- specifications
\* The calls that submit transaction and output chunks.
Submit ==
    \/ \E h \in Handles : apply_transaction_outputs(h)
    \/ \E h \in Handles : execute_transactions(h)
    \/ \E h \in Handles : notify_executor_return(h)

\* The steps of the four pipeline tasks while their channels are open.
Pipeline ==
    \/ executor_recv \/ executor_ok \/ executor_err \/ executor_flush \/ executor_dec
    \/ ledger_updater_recv \/ ledger_updater_ok \/ ledger_updater_err
    \/ ledger_updater_flush \/ ledger_updater_dec
    \/ committer_recv \/ committer_ok \/ committer_err \/ committer_flush
    \/ committer_dec
    \/ post_processor_recv \/ post_processor_fanout \/ post_processor_dec

\* A blocking executor call panics.
Panics == executor_panic \/ ledger_updater_panic \/ committer_panic

\* Handles are cloned and dropped, and the tasks end when their channel is
\* closed and drained.
Shutdown ==
    \/ \E h \in Handles, h2 \in Handles : clone(h, h2)
    \/ \E h \in Handles : drop(h)
    \/ executor_exit \/ ledger_updater_exit \/ committer_exit \/ post_processor_exit

\* The state snapshot bootstrap of a synchronizer that is initialized once,
\* as the driver does.
Bootstrap ==
    \/ \E h \in Handles, v \in TargetVersions : initialize_once(h, v)
    \/ \E h \in Handles, i \in 1..MaxIndex, l \in BOOLEAN : save_state_values(h, i, l)
    \/ \E h \in Handles : save_state_values_return(h)
    \/ \E b \in Boots : receiver_start(b)
    \/ \E b \in Boots : receiver_start_panic(b)
    \/ \E b \in Boots : receiver_recv(b)
    \/ \E b \in Boots : receiver_add_chunk_err(b)
    \/ \E b \in Boots, ok \in BOOLEAN : receiver_add_chunk(b, ok)
    \/ \E b \in Boots, f \in {0, 1, 2, 3, 4, 6} : receiver_finalize(b, f)
    \/ \E b \in Boots : receiver_dec(b)
    \/ \E b \in Boots : receiver_dec_last(b)

\* The transaction pipeline driven through one handle: the executor calls
\* return Ok or Err or panic, and the driver may drop its error receiver.
Next == Submit \/ Pipeline \/ Panics \/ drop_error_listener

Spec == Init /\ [][Next]_vars

\* The transaction pipeline when every executor call returns: each task
\* that can take a step eventually takes one, and a call that has started
\* runs to its end.  Nothing obliges the driver to submit a chunk.
NextLive == Submit \/ Pipeline \/ drop_error_listener

Fairness ==
    /\ WF_vars(Pipeline)
    /\ WF_vars(\E h \in Handles : notify_executor_return(h))

SpecLive == Init /\ [][NextLive]_vars /\ Fairness

\* The transaction pipeline with cloned and dropped handles and with
\* pending_storage_data() called through any of them.
NextHandles ==
    \/ Submit \/ Pipeline \/ Panics \/ Shutdown
    \/ \E h \in Handles : pending_storage_data(h)

SpecHandles == Init /\ [][NextHandles]_vars

\* The state snapshot bootstrap driven through one handle.
NextBootstrap == Bootstrap \/ drop_error_listener \/ drop_commit_listener

SpecBootstrap == Init /\ [][NextBootstrap]_vars

\* The state snapshot bootstrap of a synchronizer that is initialized more
\* than once, every storage call succeeding: the receiver task of a replaced
\* sender ends when it has drained its channel.
NextReinit ==
    \/ \E h \in Handles, v \in TargetVersions : initialize_state_synchronizer(h, v)
    \/ \E h \in Handles, i \in 1..MaxIndex, l \in BOOLEAN : save_state_values(h, i, l)
    \/ \E h \in Handles : save_state_values_return(h)
    \/ \E b \in Boots : receiver_start(b)
    \/ \E b \in Boots : receiver_recv(b)
    \/ \E b \in Boots : receiver_exit(b)
    \/ \E b \in Boots : receiver_add_chunk(b, TRUE)
    \/ \E b \in Boots : receiver_finalize(b, 0)
    \/ \E b \in Boots : receiver_dec(b)
    \/ \E b \in Boots : receiver_dec_last(b)

SpecReinit == Init /\ [][NextReinit]_vars

\* Transaction and output chunks and a state snapshot bootstrap submitted
\* through the same handle, every executor and storage call succeeding.
NextMixed ==
    \/ Submit
    \/ executor_recv \/ executor_ok \/ executor_flush
    \/ ledger_updater_recv \/ ledger_updater_ok \/ ledger_updater_flush
    \/ committer_recv \/ committer_ok \/ committer_flush
    \/ post_processor_recv \/ post_processor_fanout \/ post_processor_dec
    \/ \E h \in Handles, v \in TargetVersions : initialize_once(h, v)
    \/ \E h \in Handles, i \in 1..MaxIndex, l \in BOOLEAN : save_state_values(h, i, l)
    \/ \E h \in Handles : save_state_values_return(h)
    \/ \E b \in Boots : receiver_start(b)
    \/ \E b \in Boots : receiver_recv(b)
    \/ \E b \in Boots : receiver_add_chunk(b, TRUE)
    \/ \E b \in Boots : receiver_finalize(b, 0)
    \/ \E b \in Boots : receiver_dec(b)
    \/ \E b \in Boots : receiver_dec_last(b)

SpecMixed == Init /\ [][NextMixed]_vars

\* The transaction pipeline while the driver resets and finishes the chunk
\* executor through the handle.
NextExecutorCalls ==
    \/ Submit \/ Pipeline
    \/ \E h \in Handles, ok \in BOOLEAN : reset_chunk_executor(h, ok)
    \/ \E h \in Handles : finish_chunk_executor(h)

SpecExecutorCalls == Init /\ [][NextExecutorCalls]_vars

\* The transaction pipeline with cloned and dropped handles when every
\* executor call returns: a task whose listener yields None eventually ends.
NextShutdown == Submit \/ Pipeline \/ Shutdown

FairnessShutdown ==
    /\ Fairness
    /\ WF_vars(executor_exit \/ ledger_updater_exit \/ committer_exit
                  \/ post_processor_exit)

SpecShutdown == Init /\ [][NextShutdown]_vars /\ FairnessShutdown

\* ------------------------------------------------------------- properties
\* Chunk id is queued on channel ch.
QueuedOn(ch, id) == \E i \in 1..Len(ch.q) : ch.q[i].id = id

\* Chunk id is queued on one of the channels.
Queued(id) ==
    \/ QueuedOn(executor_ch, id) \/ QueuedOn(ledger_updater_ch, id)
    \/ QueuedOn(committer_ch, id) \/ QueuedOn(post_processor_ch, id)
    \/ \E b \in Boots : QueuedOn(snapshot_ch[b], id)

\* Task t is working on chunk id: it has taken the chunk off its channel and
\* has neither passed it on nor made the decrement that ends its handling.
WorkingOn(t, id) == t.cur.id = id /\ t.pc \in {"call", "add", "dec", "dec_last"}

\* Chunk id is queued or being processed in one of the tasks.
InFlight(id) ==
    \/ Queued(id)
    \/ WorkingOn(executor, id) \/ WorkingOn(ledger_updater, id)
    \/ WorkingOn(committer, id) \/ WorkingOn(post_processor, id)
    \/ \E b \in Boots : WorkingOn(receiver[b], id)

\* No task has panicked.
NoPanic ==
    /\ executor.pc # "panicked" /\ ledger_updater.pc # "panicked"
    /\ committer.pc # "panicked"
    /\ \A b \in Boots : receiver[b].pc # "panicked"

\* The chunk has been through the commit post-processor's fan-out.
Fanned(id) == \E k \in 1..Len(fanout) : fanout[k] = id

\* C1: every admitted chunk (its ingress call returned Ok) has been counted
\* into the pending counter exactly once, no chunk is ever decremented
\* twice, and no admitted chunk is left without its decrement: as long as
\* no task has panicked, an admitted chunk that has not had its decrement
\* is still queued or being processed.
C1_OneIncrementOneDecrement ==
    \A id \in Ids :
        /\ hist[id].incs <= 1
        /\ hist[id].decs <= 1
        /\ hist[id].ret = "ok" => hist[id].incs = 1
        /\ (hist[id].ret = "ok" /\ NoPanic) => (hist[id].decs = 1 \/ InFlight(id))

\* C2: pending_storage_data() returns false if and only if no chunk that an
\* ingress operation has placed on a channel is still queued or being
\* processed: every call (a step that changes nothing but the observed
\* result) returns true exactly when there is such a chunk.
C2_PendingIffInFlight ==
    [][ observed' # observed
          => observed' = << \E id \in Ids : hist[id].pushed /\ InFlight(id) >> ]_vars

\* C3: the pending counter never wraps around: it is never 2^64 - 1.
C3_CounterNeverWraps == pending_data_chunks # U64Max

\* C4: the post-commit fan-outs happen in the order in which the chunks were
\* submitted (the ids are numbered in submission order), whatever the
\* channel capacity and whichever chunks in between failed.
C4_FanoutInSubmissionOrder ==
    \A i, j \in 1..Len(fanout) : i < j => fanout[i] < fanout[j]

\* Chunks 1 and 3 went through the fan-out and chunk 2, between them, failed.
C4_Witness == fanout = <<1, 3>> /\ hist[2].failed

\* C5: commit_chunk is started for a chunk only after its update_ledger and
\* its enqueue returned Ok, update_ledger only after its enqueue returned Ok,
\* so commits started <= ledger updates Ok <= enqueues Ok.
C5_StageOrder ==
    /\ \A id \in Ids :
          /\ hist[id].com # "none" => (hist[id].upd = "ok" /\ hist[id].enq = "ok")
          /\ hist[id].upd # "none" => hist[id].enq = "ok"
    /\ Cardinality({id \in Ids : hist[id].com # "none"})
          <= Cardinality({id \in Ids : hist[id].upd = "ok"})
    /\ Cardinality({id \in Ids : hist[id].upd = "ok"})
          <= Cardinality({id \in Ids : hist[id].enq = "ok"})

\* commit_chunk has started for chunk 1 while update_ledger failed for
\* chunk 2.
C5_Witness == hist[1].com = "started" /\ hist[2].upd = "err"

\* C6 as stated: a chunk whose stage call or inter-stage send failed has
\* exactly one ErrorNotification with its own id and exactly one decrement;
\* no chunk has two notifications and no chunk that did not fail has one.
C6_OneErrorOneDecrement ==
    \A id \in Ids :
        /\ error_notifications[id] <= 1
        /\ error_notifications[id] > 0 => hist[id].failed
        /\ hist[id].failed => error_notifications[id] = 1
        /\ hist[id].decs <= 1
        /\ (hist[id].failed /\ ~InFlight(id)) => hist[id].decs = 1

\* C6 amended: the failure of a chunk sends exactly one ErrorNotification
\* with the chunk's id when the driver still holds the error receiver at
\* that moment and none when it has dropped it; either way the chunk is
\* decremented exactly once, no chunk has two notifications and no chunk
\* that did not fail has one.
C6_OneErrorIfListenerAlive ==
    /\ [](\A id \in Ids :
            /\ error_notifications[id] <= 1
            /\ error_notifications[id] > 0 => hist[id].failed
            /\ hist[id].decs <= 1
            /\ (hist[id].failed /\ ~InFlight(id)) => hist[id].decs = 1)
    /\ [][\A id \in Ids :
            (~hist[id].failed /\ hist'[id].failed)
                => /\ error_notifications'[id] = IF error_listener THEN 1 ELSE 0
                   /\ \A other \in Ids \ {id} :
                          error_notifications'[other] = error_notifications[other]]_vars

\* One chunk failed with the error receiver alive and was notified, a later
\* one failed after the receiver was dropped and was not; both have had
\* their decrement.
C6_Witness ==
    \E i, j \in Ids :
        /\ hist[i].failed /\ error_notifications[i] = 1 /\ hist[i].decs = 1
        /\ hist[j].failed /\ error_notifications[j] = 0 /\ hist[j].decs = 1

\* C7: an error on a chunk does not stop the pipeline: every chunk submitted
\* after a failed chunk goes through the fan-out unless one of its own
\* calls fails.
C7_ErrorDoesNotStopPipeline ==
    \A i, j \in Ids :
        i < j => ((hist[i].failed /\ hist[j].pushed) ~> (Fanned(j) \/ hist[j].failed))

\* Chunk 1 failed in a stage, and chunks 2 and 3 went through the fan-out.
C7_Witness == hist[1].enq = "err" /\ fanout = <<2, 3>>

\* C8: every submitted chunk reaches a terminal stage (the fan-out or a
\* failure) and has its decrement, the counter is eventually 0 for good,
\* and while no call fails the fan-outs are those of chunks 1, 2, 3, ...
\* in that order.
C8_PipelineLiveness ==
    /\ \A id \in Ids :
          hist[id].pushed ~> ((Fanned(id) \/ hist[id].failed) /\ hist[id].decs = 1)
    /\ <>[](pending_data_chunks = U64(0))
    /\ []((\A id \in Ids : ~hist[id].failed)
            => \A k \in 1..Len(fanout) : fanout[k] = k)

\* Three chunks were submitted, none failed, the fan-outs were 1, 2, 3 and
\* the counter is back at 0.
C8_Witness ==
    /\ fanout = <<1, 2, 3>>
    /\ \A id \in 1..3 : hist[id].ret = "ok" /\ ~hist[id].failed /\ hist[id].decs = 1
    /\ pending_data_chunks = U64(0)

\* C9 as stated: with max_pending_data_chunks = 2, and no call failing or
\* panicking, the third call does not return until the committer has taken
\* chunk 1 off its channel.
C9_ThirdCallWaitsForCommitter ==
    (/\ max_pending_data_chunks = 2
     /\ hist[3].ret = "ok"
     /\ NoPanic
     /\ \A id \in Ids : ~hist[id].failed)
        => hist[1].com # "none"

\* C9 amended: the call that submits chunk max_pending_data_chunks + 1 does
\* not return until the executor task has taken chunk 1 off the executor
\* channel; it does not wait for the ledger updater or the committer.
C9_CallWaitsForExecutor ==
    \A k \in Ids :
        (k = max_pending_data_chunks + 1 /\ hist[k].ret # "none")
            => hist[1].enq # "none"

\* With max_pending_data_chunks = 2 the third call has returned while its
\* chunk and chunk 2 are queued and the executor call of chunk 1 is running.
C9_Witness ==
    /\ max_pending_data_chunks = 2
    /\ hist[3].ret = "ok"
    /\ Len(executor_ch.q) = 2
    /\ hist[1].enq = "started"
    /\ hist[1].com = "none"

\* C10: the step in which apply_transaction_outputs or execute_transactions
\* returns Ok adds exactly 1 to the counter; the step in which it returns
\* Err leaves the counter and every channel as they were, and the chunk is
\* on no channel.
C10_IngressCounts ==
    [][\A id \in Ids :
        /\ (hist[id].ret = "none" /\ hist'[id].ret = "ok")
              => pending_data_chunks' = Carry(pending_data_chunks, 1)
        /\ (hist[id].ret = "none" /\ hist'[id].ret = "err")
              => /\ pending_data_chunks' = pending_data_chunks
                 /\ channels' = channels
                 /\ ~hist'[id].pushed]_vars

\* One call returned Ok and a later one returned Err, the executor having
\* ended in between.
C10_Witness ==
    \E i, j \in Ids :
        hist[i].ret = "ok" /\ hist[i].incs = 1 /\ hist[j].ret = "err" /\ ~hist[j].pushed

\* C11: save_state_values before initialize_state_synchronizer returns an
\* error in the step of the call, places the chunk on no channel and leaves
\* the counter and every channel as they were; the kind of its error is the
\* kind of no other ingress failure.
C11_UninitializedIsDistinct ==
    [][\A id \in Ids :
        /\ (hist[id].ret = "none" /\ hist'[id].ret = "uninitialized")
              => /\ ~hist[id].pushed /\ ~hist'[id].pushed
                 /\ pending_data_chunks' = pending_data_chunks
                 /\ channels' = channels
                 /\ \A other \in Ids :
                        hist'[other].ret = "err"
                            => hist'[other].error.kind # hist'[id].error.kind
        /\ (hist[id].ret = "none" /\ hist'[id].ret = "err")
              => \A other \in Ids :
                    hist'[other].ret = "uninitialized"
                        => hist'[other].error.kind # hist'[id].error.kind]_vars

\* C12: save_state_values never suspends and changes nothing when it fails:
\* the step of the call either returns an error, leaving every channel and
\* the counter as they were, or appends the chunk, once, behind the chunks
\* already queued; a call that has sent its chunk can always go on to its
\* return, which adds exactly 1 to the counter.
C12_SaveStateValuesFrame ==
    /\ [](\A h \in Handles :
            sync[h].st = "sent" => ENABLED save_state_values_return(h))
    /\ [][\A id \in Ids :
            /\ next_id' = id + 1 /\ next_id = id
                  => (hist'[id].pushed \/ hist'[id].ret \in {"err", "uninitialized"})
            /\ (hist[id].ret = "none" /\ hist'[id].ret \in {"err", "uninitialized"})
                  => /\ ~hist'[id].pushed
                     /\ channels' = channels
                     /\ pending_data_chunks' = pending_data_chunks
            /\ (~hist[id].pushed /\ hist'[id].pushed)
                  => /\ \E b \in Boots :
                           LET old == snapshot_ch[b].q
                               new == snapshot_ch'[b].q IN
                           /\ ~QueuedOn(snapshot_ch[b], id)
                           /\ Len(new) = Len(old) + 1
                           /\ SubSeq(new, 1, Len(old)) = old
                           /\ new[Len(new)].id = id
                           /\ \A o \in Boots \ {b} : snapshot_ch'[o] = snapshot_ch[o]
                     /\ UNCHANGED <<executor_ch, ledger_updater_ch, committer_ch,
                                    post_processor_ch>>
                     /\ pending_data_chunks' = pending_data_chunks
            /\ (hist[id].ret = "none" /\ hist'[id].ret = "ok")
                  => /\ pending_data_chunks' = Carry(pending_data_chunks, 1)
                     /\ hist'[id].incs = 1
                     /\ channels' = channels]_vars

\* The channel of the bootstrap is full: two chunks were accepted and are
\* queued, and the third call returned an error.
C12_Witness ==
    /\ hist[1].ret = "ok" /\ hist[2].ret = "ok" /\ hist[3].ret = "err"
    /\ \E b \in Boots :
          /\ Len(snapshot_ch[b].q) = 2
          /\ snapshot_ch[b].q[1].id = 1 /\ snapshot_ch[b].q[2].id = 2
          /\ IsParked(snapshot_ch[b], 1)

\* C13: a second initialize_state_synchronizer on a synchronizer is
\* rejected: no step replaces a bootstrap sender that a handle already
\* holds, and no snapshot receiver task is spawned while a handle holds a
\* bootstrap sender.
C13_SecondInitializeRejected ==
    [][/\ \A h \in Handles :
            sync[h].notifier # 0 => sync'[h].notifier = sync[h].notifier
       /\ (\E b \in Boots : receiver[b].pc = "none" /\ receiver'[b].pc # "none")
            => \A h \in Handles : Alive(h) => sync[h].notifier = 0]_vars

\* The calls of bootstrap b recorded with the given name.
CallsOf(b, name) ==
    {k \in 1..Len(storage_log[b]) : storage_log[b][k].call = name}

\* Bootstrap b was successful: every step of its finalization, to the last,
\* returned Ok.
Successful(b) ==
    \E k \in CallsOf(b, FinalizeSteps[Len(FinalizeSteps)]) : storage_log[b][k].ok

\* C14: a StateSnapshotCommit is sent exactly once for each successful
\* bootstrap and never for an unsuccessful one, and it carries the
\* last_index of the chunk flagged is_last_chunk and the target version.
C14_OneCommitPerSuccessfulBootstrap ==
    /\ Len(commit_notifications) = Cardinality({b \in Boots : Successful(b)})
    /\ \A n \in 1..Len(commit_notifications) :
          \E b \in Boots :
              /\ commit_notifications[n].version = target_version[b]
              /\ \E k \in CallsOf(b, "add_chunk") :
                    /\ storage_log[b][k].last /\ storage_log[b][k].ok
                    /\ storage_log[b][k].index = commit_notifications[n].last_committed_index

\* The calls of update_last_persisted_state_value_index of bootstrap b.
MetadataUpdates(b) == CallsOf(b, "update_last_persisted_state_value_index")

\* C15 as stated: the last_index values passed to the metadata storage never
\* decrease, and the call with is_last = true is made at most once.
C15_MetadataIndexMonotone ==
    \A b \in Boots :
        /\ \A k1, k2 \in MetadataUpdates(b) :
              k1 < k2 => storage_log[b][k1].index <= storage_log[b][k2].index
        /\ Cardinality({k \in MetadataUpdates(b) : storage_log[b][k].last}) <= 1

\* C15 amended: the metadata storage is called with the last_index of the
\* chunks in the order in which the chunks were submitted, each with its own
\* last_index, so the values never decrease when the chunks are submitted
\* with last_index values that never decrease; the call with is_last = true
\* is made at most once in a bootstrap.
C15_MetadataIndexInSubmissionOrder ==
    \A b \in Boots :
        /\ \A k1, k2 \in MetadataUpdates(b) :
              k1 < k2 => storage_log[b][k1].id < storage_log[b][k2].id
        /\ \A k \in MetadataUpdates(b) :
              storage_log[b][k].index = hist[storage_log[b][k].id].last_index
        /\ (\A i, j \in Ids :
               (i < j /\ hist[i].pushed /\ hist[j].pushed)
                   => hist[i].last_index <= hist[j].last_index)
             => \A k1, k2 \in MetadataUpdates(b) :
                   k1 < k2 => storage_log[b][k1].index <= storage_log[b][k2].index
        /\ Cardinality({k \in MetadataUpdates(b) : storage_log[b][k].last}) <= 1

\* Three chunks with last_index 1, 2, 2, the third flagged last: the
\* metadata storage was called three times, the last time with is_last.
C15_Witness ==
    \E b \in Boots :
        /\ Cardinality(MetadataUpdates(b)) = 3
        /\ \E k \in MetadataUpdates(b) : storage_log[b][k].last /\ storage_log[b][k].ok
        /\ hist[1].last_index = 1 /\ hist[2].last_index = 2 /\ hist[3].last_index = 2

\* A transaction or output chunk is queued for, or being processed by, one
\* of the four pipeline tasks.
PipelineInFlight(id) ==
    \/ QueuedOn(executor_ch, id) \/ QueuedOn(ledger_updater_ch, id)
    \/ QueuedOn(committer_ch, id) \/ QueuedOn(post_processor_ch, id)
    \/ WorkingOn(executor, id) \/ WorkingOn(ledger_updater, id)
    \/ WorkingOn(committer, id) \/ WorkingOn(post_processor, id)

\* A state chunk is queued for, or being processed by, a snapshot receiver.
SnapshotInFlight(id) ==
    \E b \in Boots : QueuedOn(snapshot_ch[b], id) \/ WorkingOn(receiver[b], id)

\* C16: the transaction pipeline and the state snapshot bootstrap exclude
\* each other: never is a transaction or output chunk in flight in the
\* pipeline while a state chunk is in flight at the snapshot receiver.
C16_FlowsMutuallyExclusive ==
    ~ \E i, j \in Ids : PipelineInFlight(i) /\ SnapshotInFlight(j)

\* C17: a step of reset_chunk_executor or finish_chunk_executor makes exactly
\* one call of the executor method and changes nothing else: the counter,
\* the channels, the tasks, the handles and the notifications are as before;
\* reset_chunk_executor returns an error exactly when executor.reset()
\* failed, and sends no ErrorNotification.
C17_ExecutorCallsFrame ==
    [][chunk_executor' # chunk_executor
        => /\ \/ /\ chunk_executor'.reset = chunk_executor.reset + 1
                 /\ chunk_executor'.finish = chunk_executor.finish
                 /\ (chunk_executor'.result.kind = "UnexpectedError")
                       = ~chunk_executor'.reset_ok
              \/ /\ chunk_executor'.finish = chunk_executor.finish + 1
                 /\ chunk_executor'.reset = chunk_executor.reset
                 /\ chunk_executor'.result = chunk_executor.result
           /\ pending_data_chunks' = pending_data_chunks
           /\ channels' = channels
           /\ tasks' = tasks
           /\ driver' = driver
           /\ sync' = sync
           /\ fanout' = fanout
           /\ hist' = hist]_vars

\* executor.reset() failed and reset_chunk_executor returned the error, and
\* finish_chunk_executor was called, while chunk 1 was in the pipeline and
\* counted; no ErrorNotification was sent.
C17_Witness ==
    /\ chunk_executor.reset = 1 /\ chunk_executor.finish = 1
    /\ ~chunk_executor.reset_ok
    /\ chunk_executor.result.kind = "UnexpectedError"
    /\ PipelineInFlight(1)
    /\ pending_data_chunks = U64(1)
    /\ \A id \in Ids : error_notifications[id] = 0

\* C18: once every handle has been dropped the four pipeline tasks
\* eventually end; the ledger updater ends only after the executor, the
\* committer only after the ledger updater and the post-processor only after
\* the committer; and the executor does not end while a handle is left.
C18_ShutdownByDrop ==
    /\ (\A h \in Handles : ~Alive(h))
          ~> (Ended(executor) /\ Ended(ledger_updater) /\ Ended(committer)
                /\ Ended(post_processor))
    /\ [](/\ Ended(ledger_updater) => Ended(executor)
          /\ Ended(committer) => Ended(ledger_updater)
          /\ Ended(post_processor) => Ended(committer)
          /\ Ended(executor) => ExecutorSenders = {})

\* Two handles were dropped after a chunk went through the pipeline, and the
\* four tasks have ended.
C18_Witness ==
    /\ \A h \in Handles : sync[h].st = "dropped"
    /\ Fanned(1)
    /\ executor.pc = "done" /\ ledger_updater.pc = "done"
    /\ committer.pc = "done" /\ post_processor.pc = "done"

(***************************************************************************)
(* MockVM (execution/executor/src/mock_vm).  The tests of mock_vm_test.rs  *)
(* run MockVM::execute_block_no_limit on a block of mint and transfer      *)
(* transactions against MockStateView, a state view that holds nothing.    *)
(* The VM itself (mock_vm/mod.rs) is modelled from what those tests call   *)
(* and expect.                                                             *)
(***************************************************************************)

\* The largest account index and the longest block.
MaxAddress == 1
MaxBlock == 3

\* amount of the mints (mock_vm_test.rs:42) and of the transfer
\* (mock_vm_test.rs:119).
MintAmount == 100
TransferAmount == 50

Amounts == {TransferAmount, MintAmount}

\* gen_address(index): the address whose bytes are all `index`.
gen_address(index) == index

Addresses == {gen_address(index) : index \in 0..MaxAddress}

balance_ap(account) == [path |-> "balance", account |-> account]

seqnum_ap(account) == [path |-> "seqnum", account |-> account]

encode_mint_transaction(sender, amount) ==
    [type |-> "Mint", sender |-> sender, recipient |-> sender, amount |-> amount]

encode_transfer_transaction(sender, recipient, amount) ==
    [type |-> "Payment", sender |-> sender, recipient |-> recipient, amount |-> amount]

\* The transactions of a block: mints, and transfers between two different
\* accounts.
Txns ==
    {encode_mint_transaction(s, a) : s \in Addresses, a \in Amounts}
    \cup {encode_transfer_transaction(p[1], p[2], a) :
             p \in {q \in Addresses \X Addresses : q[1] # q[2]}, a \in Amounts}

RECURSIVE BlocksOfLen(_)
BlocksOfLen(n) ==
    IF n = 0 THEN {<<>>}
    ELSE {Append(b, t) : b \in BlocksOfLen(n - 1), t \in Txns}

Blocks == UNION {BlocksOfLen(n) : n \in 1..MaxBlock}

\* MockStateView::get_state_value with a stale entry: a state view that
\* returns a stored value for every key.
get_state_value_stale(state_key) == <<7>>

\* MockStateView::get_state_value: Ok(None) for every key (None is <<>>,
\* Some(v) is <<v>>).
get_state_value(state_key) == <<>>

\* A value missing from storage reads as 0.
read_u64_from_storage(access_path) ==
    IF get_state_value(access_path) = <<>> THEN 0
    ELSE get_state_value(access_path)[1]

\* The value written earlier in the block, else the stored one.
read_u64(output_cache, access_path) ==
    IF access_path \in DOMAIN output_cache THEN output_cache[access_path]
    ELSE read_u64_from_storage(access_path)

read_balance(output_cache, account) == read_u64(output_cache, balance_ap(account))

read_seqnum(output_cache, account) == read_u64(output_cache, seqnum_ap(account))

\* map.insert(key, value)
Insert(map, key, value) ==
    [k \in DOMAIN map \cup {key} |-> IF k = key THEN value ELSE map[k]]

EmptyMap == [k \in {} |-> 0]

gen_mint_writeset(sender, balance, seqnum) ==
    Insert(Insert(EmptyMap, balance_ap(sender), balance), seqnum_ap(sender), seqnum)

gen_payment_writeset(sender, sender_balance, sender_seqnum, recipient, recipient_balance) ==
    Insert(Insert(Insert(EmptyMap, balance_ap(sender), sender_balance),
                  seqnum_ap(sender), sender_seqnum),
           balance_ap(recipient), recipient_balance)

KeptOutput(write_set) == [write_set |-> write_set, status |-> "Keep"]

DiscardedOutput == [write_set |-> EmptyMap, status |-> "Discard"]

\* A transfer that also bumps the recipient's sequence number.
execute_payment_recipient_seqnum(output_cache, txn) ==
    LET sender_old_balance == read_balance(output_cache, txn.sender)
        recipient_old_balance == read_balance(output_cache, txn.recipient)
        sender_new_seqnum == read_seqnum(output_cache, txn.sender) + 1
        recipient_new_seqnum == read_seqnum(output_cache, txn.recipient) + 1
        sender_new_balance == sender_old_balance - txn.amount
        recipient_new_balance == recipient_old_balance + txn.amount
    IN  IF sender_old_balance < txn.amount
        THEN [cache |-> output_cache, output |-> DiscardedOutput]
        ELSE [cache |-> Insert(Insert(Insert(Insert(output_cache,
                                   balance_ap(txn.sender), sender_new_balance),
                                   seqnum_ap(txn.sender), sender_new_seqnum),
                                   balance_ap(txn.recipient), recipient_new_balance),
                                   seqnum_ap(txn.recipient), recipient_new_seqnum),
              output |-> KeptOutput(
                  Insert(gen_payment_writeset(txn.sender, sender_new_balance,
                                              sender_new_seqnum, txn.recipient,
                                              recipient_new_balance),
                         seqnum_ap(txn.recipient), recipient_new_seqnum))]

\* One Payment transaction: discarded when the sender's balance is below the
\* amount, else the sender pays, its sequence number goes up by one and the
\* recipient receives.
execute_payment(output_cache, txn) ==
    LET sender_old_balance == read_balance(output_cache, txn.sender)
        recipient_old_balance == read_balance(output_cache, txn.recipient)
        sender_new_seqnum == read_seqnum(output_cache, txn.sender) + 1
        sender_new_balance == sender_old_balance - txn.amount
        recipient_new_balance == recipient_old_balance + txn.amount
    IN  IF sender_old_balance < txn.amount
        THEN [cache |-> output_cache, output |-> DiscardedOutput]
        ELSE [cache |-> Insert(Insert(Insert(output_cache,
                                   balance_ap(txn.sender), sender_new_balance),
                                   seqnum_ap(txn.sender), sender_new_seqnum),
                                   balance_ap(txn.recipient), recipient_new_balance),
              output |-> KeptOutput(
                  gen_payment_writeset(txn.sender, sender_new_balance,
                                       sender_new_seqnum, txn.recipient,
                                       recipient_new_balance))]

\* One Mint transaction: the sender's balance goes up by the amount and its
\* sequence number by one.
execute_mint(output_cache, txn) ==
    LET new_balance == read_balance(output_cache, txn.sender) + txn.amount
        new_seqnum == read_seqnum(output_cache, txn.sender) + 1
    IN  [cache |-> Insert(Insert(output_cache, balance_ap(txn.sender), new_balance),
                          seqnum_ap(txn.sender), new_seqnum),
         output |-> KeptOutput(gen_mint_writeset(txn.sender, new_balance, new_seqnum))]

\* The loop of execute_block: the transactions in order, each reading what
\* the earlier ones wrote, one output pushed per transaction.
RECURSIVE execute_block(_, _, _)
execute_block(txns, output_cache, outputs) ==
    IF Len(outputs) = Len(txns) THEN outputs
    ELSE LET txn == txns[Len(outputs) + 1]
             r == IF txn.type = "Mint" THEN execute_mint(output_cache, txn)
                  ELSE execute_payment(output_cache, txn)
         IN  execute_block(txns, r.cache, Append(outputs, r.output))

\* MockVM::execute_block_no_limit(txns, &MockStateView), as the tests call it.
execute_block_no_limit(txns) ==
    /\ mock_vm.block = <<>>
    /\ mock_vm' = [block |-> txns, outputs |-> execute_block(txns, EmptyMap, <<>>)]
    /\ UNCHANGED <<max_pending_data_chunks, sync, pending_data_chunks, channels, tasks,
                   driver, fanout, storage_log, observed, chunk_executor, next_id,
                   next_boot, hist>>

NextMockVM == \E txns \in Blocks : execute_block_no_limit(txns)

SpecMockVM == Init /\ [][NextMockVM]_vars

\* The blocks and the expected write sets of the three tests.
test_mock_vm_different_senders ==
    [txns |-> <<encode_mint_transaction(gen_address(0), MintAmount),
                encode_mint_transaction(gen_address(1), MintAmount)>>,
     expected |-> <<gen_mint_writeset(gen_address(0), MintAmount, 1),
                    gen_mint_writeset(gen_address(1), MintAmount, 1)>>]

test_mock_vm_same_sender ==
    [txns |-> [i \in 1..MaxBlock |-> encode_mint_transaction(gen_address(1), MintAmount)],
     expected |-> [i \in 1..MaxBlock |->
                      gen_mint_writeset(gen_address(1), MintAmount * i, i)]]

test_mock_vm_payment ==
    [txns |-> <<encode_mint_transaction(gen_address(0), MintAmount),
                encode_mint_transaction(gen_address(1), MintAmount),
                encode_transfer_transaction(gen_address(0), gen_address(1),
                                            TransferAmount)>>,
     expected |-> Insert(Insert(Insert(EmptyMap,
                      balance_ap(gen_address(0)), 50),
                      seqnum_ap(gen_address(0)), 2),
                      balance_ap(gen_address(1)), 150)]

\* The number of transactions of `sender` among the first i of the block.
SentBy(block, sender, i) ==
    Cardinality({j \in 1..i : block[j].sender = sender})

\* The value of a key before transaction i: the one written by the latest
\* earlier output that has the key.
WrittenBefore(access_path, i) ==
    {j \in 1..(i - 1) : access_path \in DOMAIN mock_vm.outputs[j].write_set}

ValueBefore(access_path, i) ==
    LET j == CHOOSE x \in WrittenBefore(access_path, i) :
                 \A y \in WrittenBefore(access_path, i) : y <= x
    IN  mock_vm.outputs[j].write_set[access_path]

\* C19: a block of mint transactions executed against the empty state view
\* gives one kept output per transaction, in order; the output of a mint by
\* sender s writes exactly balance(s) and seqnum(s); seqnum(s) is the number
\* of s's mints so far in the block, this one included, and balance(s) is
\* the amount times that number when s's mints so far all have that amount;
\* the mints of other senders do not count.  The blocks of
\* test_mock_vm_different_senders and test_mock_vm_same_sender give the
\* write sets the tests expect.
C19_MintsSequentialCumulative ==
    LET block == mock_vm.block
        outputs == mock_vm.outputs
    IN  (block # <<>> /\ \A i \in 1..Len(block) : block[i].type = "Mint")
        => /\ Len(outputs) = Len(block)
           /\ \A i \in 1..Len(block) :
                LET s == block[i].sender
                    n == SentBy(block, s, i)
                    ws == outputs[i].write_set
                IN  /\ outputs[i].status = "Keep"
                    /\ DOMAIN ws = {balance_ap(s), seqnum_ap(s)}
                    /\ ws[seqnum_ap(s)] = n
                    /\ (\A j \in 1..i : block[j].sender = s
                                           => block[j].amount = block[i].amount)
                          => ws[balance_ap(s)] = block[i].amount * n
           /\ block = test_mock_vm_different_senders.txns
                 => [i \in 1..Len(outputs) |-> outputs[i].write_set]
                       = test_mock_vm_different_senders.expected
           /\ block = test_mock_vm_same_sender.txns
                 => [i \in 1..Len(outputs) |-> outputs[i].write_set]
                       = test_mock_vm_same_sender.expected

\* A block of three mints of 100, the second by another sender: the third
\* output writes balance 200 and sequence number 2 for the first sender.
C19_Witness ==
    /\ mock_vm.block = <<encode_mint_transaction(gen_address(0), MintAmount),
                         encode_mint_transaction(gen_address(1), MintAmount),
                         encode_mint_transaction(gen_address(0), MintAmount)>>
    /\ Len(mock_vm.outputs) = 3
    /\ mock_vm.outputs[3].write_set
          = gen_mint_writeset(gen_address(0), 2 * MintAmount, 2)

\* Transaction i of the block is a transfer, and earlier transactions of the
\* block have written balance(A), balance(B) and seqnum(A).
TransferAfterSetup(i) ==
    /\ i \in 1..Len(mock_vm.block)
    /\ mock_vm.block[i].type = "Payment"
    /\ WrittenBefore(balance_ap(mock_vm.block[i].sender), i) # {}
    /\ WrittenBefore(seqnum_ap(mock_vm.block[i].sender), i) # {}
    /\ WrittenBefore(balance_ap(mock_vm.block[i].recipient), i) # {}

\* The write set of a transfer that went through: three entries, balance(A)
\* down by a, seqnum(A) up by one, balance(B) up by a, the total kept.
TransferWrites(i) ==
    LET A == mock_vm.block[i].sender
        B == mock_vm.block[i].recipient
        a == mock_vm.block[i].amount
        ws == mock_vm.outputs[i].write_set
    IN  /\ DOMAIN ws = {balance_ap(A), seqnum_ap(A), balance_ap(B)}
        /\ Cardinality(DOMAIN ws) = 3
        /\ ws[balance_ap(A)] = ValueBefore(balance_ap(A), i) - a
        /\ ws[seqnum_ap(A)] = ValueBefore(seqnum_ap(A), i) + 1
        /\ ws[balance_ap(B)] = ValueBefore(balance_ap(B), i) + a
        /\ ws[balance_ap(A)] + ws[balance_ap(B)]
              = ValueBefore(balance_ap(A), i) + ValueBefore(balance_ap(B), i)

ForwardedTo(ch, t, id) == QueuedOn(ch, id) \/ (t.cur.id = id /\ t.pc # "recv")

\* C21: a chunk whose stage call failed is dropped at that stage: after its
\* enqueue failed nothing of it is sent to the ledger updater, after its
\* update_ledger failed nothing to the committer, after its commit_chunk
\* failed nothing to the commit post-processor; no later stage is ever
\* started for it and no chunk that reported an error goes through the
\* fan-out.
C21_FailedChunkIsDropped ==
    \A id \in Ids :
        /\ hist[id].enq = "err"
              => /\ ~ForwardedTo(ledger_updater_ch, ledger_updater, id)
                 /\ hist[id].upd = "none" /\ hist[id].com = "none"
        /\ hist[id].upd = "err"
              => /\ ~ForwardedTo(committer_ch, committer, id)
                 /\ hist[id].com = "none"
        /\ hist[id].com = "err"
              => ~ForwardedTo(post_processor_ch, post_processor, id)
        /\ (hist[id].failed \/ error_notifications[id] > 0) => ~Fanned(id)

\* Chunk 1 failed in the executor, chunk 2 in the ledger updater and chunk 3
\* in the committer; each was reported once and none went further.
C21_Witness ==
    /\ hist[1].enq = "err" /\ hist[2].upd = "err" /\ hist[3].com = "err"
    /\ \A id \in 1..3 : error_notifications[id] = 1 /\ hist[id].decs = 1
    /\ fanout = <<>>

\* Both flows driven through a handle and its clones, every executor and
\* storage call succeeding: the executor channel and the bootstrap channel
\* have as many senders as there are handles.
NextChannels ==
    \/ \E h \in Handles, h2 \in Handles : clone(h, h2)
    \/ \E h \in Handles : execute_transactions(h)
    \/ \E h \in Handles : notify_executor_return(h)
    \/ executor_recv \/ executor_ok \/ executor_flush
    \/ ledger_updater_recv \/ ledger_updater_ok \/ ledger_updater_flush
    \/ committer_recv \/ committer_ok \/ committer_flush
    \/ post_processor_recv \/ post_processor_fanout \/ post_processor_dec
    \/ \E h \in Handles : initialize_once(h, 100)
    \/ \E h \in Handles, l \in BOOLEAN : save_state_values(h, 1, l)
    \/ \E h \in Handles : save_state_values_return(h)
    \/ \E b \in Boots : receiver_start(b)
    \/ \E b \in Boots : receiver_recv(b)
    \/ \E b \in Boots : receiver_add_chunk(b, TRUE)
    \/ \E b \in Boots : receiver_finalize(b, 0)
    \/ \E b \in Boots : receiver_dec(b)
    \/ \E b \in Boots : receiver_dec_last(b)

\* The synchronizer configured with the smallest buffer, so that the three
\* chunks fill a channel that has two senders.
InitChannels == Init /\ max_pending_data_chunks = 1

SpecChannels == InitChannels /\ [][NextChannels]_vars

\* The five kinds of bounded channel, the bootstrap channels one by one.
AllChannels ==
    <<executor_ch, ledger_updater_ch, committer_ch, post_processor_ch>>
        \o [b \in Boots |-> snapshot_ch[b]]

\* The handles that exist or have existed: the senders of an ingress channel.
HandlesCreated == {h \in Handles : sync[h].st # "unused"}

\* C22 (as stated): no bounded channel ever holds more than
\* max_pending_data_chunks queued messages.
C22_QueueWithinMaxPending ==
    \A c \in 1..Len(AllChannels) : Len(AllChannels[c].q) <= max_pending_data_chunks

\* C22 (amended): a channel holds at most max_pending_data_chunks messages
\* plus one per sender (one sender per handle on the executor and bootstrap
\* channels, one on each channel between two stages), and this bound is
\* reached; a sender whose message took the queue above
\* max_pending_data_chunks is parked: an awaited send of it does not return
\* and it pushes no further message (a try-send of it fails) until the
\* receiver has taken a message; no
\* step of a sender drops or overwrites a queued message (a queue changes
\* by an append at its end, by the receiver taking its head, or by the
\* receiver being dropped).
C22_QueueWithinMaxPendingPlusSenders ==
    /\ [](/\ Len(executor_ch.q) <= max_pending_data_chunks + Cardinality(HandlesCreated)
          /\ \A b \in Boots :
                Len(snapshot_ch[b].q) <= max_pending_data_chunks + Cardinality(HandlesCreated)
          /\ Len(ledger_updater_ch.q) <= max_pending_data_chunks + 1
          /\ Len(committer_ch.q) <= max_pending_data_chunks + 1
          /\ Len(post_processor_ch.q) <= max_pending_data_chunks + 1
          /\ \A c \in 1..Len(AllChannels) :
                Len(AllChannels[c].q) > max_pending_data_chunks
                    => AllChannels[c].parked # <<>>)
    /\ [][/\ \A c \in 1..Len(AllChannels) :
                LET old == AllChannels[c].q
                    new == AllChannels'[c].q IN
                \/ new = old
                \/ Len(new) = Len(old) + 1 /\ SubSeq(new, 1, Len(old)) = old
                \/ old # <<>> /\ new = Tail(old)
                \/ new = <<>> /\ ~AllChannels'[c].open
          /\ \A h \in Handles :
                /\ (sync[h].st = "flush" /\ IsParked(executor_ch, h))
                      => sync'[h].st = "flush"
                /\ (sync[h].st = "idle" /\ sync'[h].st = "flush")
                      => ~IsParked(executor_ch, h)
                /\ (sync[h].st = "idle" /\ sync'[h].st = "sent")
                      => ~IsParked(snapshot_ch[sync[h].notifier], h)
          /\ (executor.pc = "flush" /\ IsParked(ledger_updater_ch, "executor"))
                => executor'.pc = "flush"
          /\ (ledger_updater.pc = "flush" /\ IsParked(committer_ch, "ledger_updater"))
                => ledger_updater'.pc = "flush"
          /\ (committer.pc = "flush" /\ IsParked(post_processor_ch, "committer"))
                => committer'.pc = "flush"]_vars

\* With max_pending_data_chunks = 1 and two handles, three chunks are queued
\* on the executor channel, both handles' senders are parked and the second
\* handle's call has not returned.
C22_Witness ==
    /\ max_pending_data_chunks = 1
    /\ Len(executor_ch.q) = 3
    /\ IsParked(executor_ch, 1) /\ IsParked(executor_ch, 2)
    /\ \E h \in Handles : sync[h].st = "flush" /\ hist[sync[h].cur].ret = "none"

\* The snapshot receiver task of bootstrap b has been spawned and has not
\* ended.
WorkerAlive(b) == receiver[b].pc # "none" /\ ~Ended(receiver[b])

\* The state snapshot receiver that storage.writer returned to the task of
\* bootstrap b is open: it has not been finished, nor dropped with the task.
StorageReceiverOpen(b) ==
    /\ CallsOf(b, "get_state_snapshot_receiver") # {}
    /\ CallsOf(b, "finish_box") = {}
    /\ ~Ended(receiver[b])

\* C23: at most one bootstrap is in flight: at most one snapshot receiver
\* task of the synchronizer is alive, and at most one state snapshot receiver
\* obtained from storage.writer is open.
C23_AtMostOneBootstrap ==
    /\ Cardinality({b \in Boots : WorkerAlive(b)}) <= 1
    /\ Cardinality({b \in Boots : StorageReceiverOpen(b)}) <= 1

\* The calls of bootstrap b made for chunk id.
CallsFor(b, id) == {k \in 1..Len(storage_log[b]) : storage_log[b][k].id = id}

\* C24: for a state chunk that is not the last and whose add_chunk returned
\* Ok, update_last_persisted_state_value_index is called exactly once, with
\* the chunk's last_index and is_last = false, right after the add_chunk;
\* no other call is made for the chunk and no such update is made without
\* an add_chunk that returned Ok; the counter is then decremented once (the
\* decrement can always be taken), the task goes back to its listener and
\* no commit notification is sent in the handling of the chunk.
C24_NonLastChunk ==
    /\ [](\A b \in Boots :
            /\ \A k \in CallsOf(b, "add_chunk") :
                  LET c == storage_log[b][k] IN
                  (c.ok /\ ~c.last)
                     => /\ k + 1 <= Len(storage_log[b])
                        /\ storage_log[b][k + 1].call
                              = "update_last_persisted_state_value_index"
                        /\ storage_log[b][k + 1].id = c.id
                        /\ storage_log[b][k + 1].index = hist[c.id].last_index
                        /\ ~storage_log[b][k + 1].last
                        /\ CallsFor(b, c.id) = {k, k + 1}
                        /\ \/ receiver[b].pc = "dec" /\ receiver[b].cur.id = c.id
                                 /\ hist[c.id].decs = 0
                           \/ hist[c.id].decs = 1
            /\ \A k \in MetadataUpdates(b) :
                  ~storage_log[b][k].last
                     => /\ k > 1
                        /\ storage_log[b][k - 1].call = "add_chunk"
                        /\ storage_log[b][k - 1].ok
                        /\ storage_log[b][k - 1].id = storage_log[b][k].id
            /\ receiver[b].pc = "dec" => ENABLED receiver_dec(b))
    /\ [][\A b \in Boots :
            (receiver[b].cur.kind = "States" /\ ~receiver[b].cur.is_last
                /\ receiver'[b] # receiver[b])
               => /\ commit_notifications' = commit_notifications
                  /\ receiver[b].pc = "dec"
                        => /\ receiver'[b] = Idle
                           /\ pending_data_chunks' = Borrow(pending_data_chunks, 1)
                           /\ hist'[receiver[b].cur.id].decs = 1]_vars

\* Two chunks that were not the last were appended, their indices 1 and 2
\* were written to the metadata storage (the second write failed and was
\* reported), both were decremented and the task waits for the next chunk.
C24_Witness ==
    \E b \in Boots :
        /\ Len(storage_log[b]) = 5
        /\ storage_log[b][3] =
              Call("update_last_persisted_state_value_index", 1, 1, FALSE, TRUE)
        /\ storage_log[b][5] =
              Call("update_last_persisted_state_value_index", 2, 2, FALSE, FALSE)
        /\ error_notifications[2] = 1
        /\ hist[1].decs = 1 /\ hist[2].decs = 1
        /\ receiver[b] = Idle
        /\ commit_notifications = <<>>

\* The calls of bootstrap b after call k.
CallsAfter(b, k) == SubSeq(storage_log[b], k + 1, Len(storage_log[b]))

\* C25: after the add_chunk of the last chunk returned Ok the calls are, in
\* this order, receiver.finish, writer.finalize_state_snapshot, the metadata
\* update with the chunk's last_index and is_last = true, executor.reset
\* and the send of StateSnapshotCommit, each made only when the one before
\* it returned Ok; receiver.finish is always made; every metadata update
\* with is_last = false precedes it; and the commit notifications are those
\* of the finalizations whose send was reached and succeeded.
C25_FinalizationOrder ==
    /\ \A b \in Boots : \A k \in CallsOf(b, "add_chunk") :
          LET c == storage_log[b][k]
              rest == CallsAfter(b, k)
              order == << "finish_box", "finalize_state_snapshot",
                          "update_last_persisted_state_value_index", "reset",
                          "send_commit_notification" >>
          IN  (c.ok /\ c.last)
                 => /\ Len(rest) >= 1
                    /\ \A j \in 1..Len(rest) :
                          /\ rest[j].id = c.id
                          /\ j <= Len(order) => rest[j].call = order[j]
                          /\ j > 1 => rest[j - 1].ok
                    /\ Len(rest) >= 3 => (rest[3].last /\ rest[3].index = c.index)
                    /\ \A m \in MetadataUpdates(b) : ~storage_log[b][m].last => m < k
    /\ Len(commit_notifications)
          = Cardinality({b \in Boots :
                \E k \in CallsOf(b, "send_commit_notification") : storage_log[b][k].ok})

\* A chunk that was not the last and then the last chunk were appended, the
\* five steps returned Ok in order and the commit notification with index 2
\* and version 100 was sent.
C25_Witness ==
    \E b \in Boots :
        /\ Len(storage_log[b]) >= 9
        /\ storage_log[b][3] =
              Call("update_last_persisted_state_value_index", 1, 1, FALSE, TRUE)
        /\ storage_log[b][4] = Call("add_chunk", 2, 2, TRUE, TRUE)
        /\ storage_log[b][5] = Call("finish_box", 2, 2, TRUE, TRUE)
        /\ storage_log[b][8] = Call("reset", 2, 2, TRUE, TRUE)
        /\ storage_log[b][9] = Call("send_commit_notification", 2, 2, TRUE, TRUE)
        /\ commit_notifications = <<create_commit_notification(2, 100)>>

\* The first five steps of the finalization: those the failure of which the
\* worker reports as a failed finalization before anything is sent.
AbortingSteps == { "finish_box", "finalize_state_snapshot",
                   "update_last_persisted_state_value_index", "reset",
                   "send_commit_notification" }

\* Call k of bootstrap b is a step of the finalization that failed.
FailedFinalizeStep(b, k) ==
    /\ k \in 1..Len(storage_log[b])
    /\ storage_log[b][k].call \in AbortingSteps
    /\ storage_log[b][k].last
    /\ ~storage_log[b][k].ok

\* After a failed step of the finalization no later step is made, and no
\* step made for the last chunk is made twice.
AbortedAt(b, k) ==
    /\ k = Len(storage_log[b])
    /\ \A i, j \in CallsFor(b, storage_log[b][k].id) :
          storage_log[b][i].call = storage_log[b][j].call => i = j
    /\ commit_notifications = <<>>

\* C26 (as stated): when a step of the finalization fails no later step is
\* made, no step is repeated, and exactly one ErrorNotification with the
\* last chunk's id is emitted.
C26_FinalizeFailureAborts ==
    \A b \in Boots : \A k \in 1..Len(storage_log[b]) :
        FailedFinalizeStep(b, k)
           => /\ AbortedAt(b, k)
              /\ error_notifications[storage_log[b][k].id] = 1

\* C26 (amended): when a step of the finalization fails no later step is
\* made and no step is repeated or undone (the calls made are never taken
\* back); the failure emits exactly one ErrorNotification with the last
\* chunk's id when the driver still holds the error receiver at that
\* moment, and none when it has dropped it.
C26_FinalizeFailureAbortsNotifiesListener ==
    /\ [](\A b \in Boots : \A k \in 1..Len(storage_log[b]) :
            FailedFinalizeStep(b, k)
               => /\ AbortedAt(b, k)
                  /\ error_notifications[storage_log[b][k].id] <= 1)
    /\ [][\A b \in Boots :
            /\ Len(storage_log'[b]) >= Len(storage_log[b])
            /\ SubSeq(storage_log'[b], 1, Len(storage_log[b])) = storage_log[b]
            /\ (/\ storage_log'[b] # storage_log[b]
                /\ LET c == storage_log'[b][Len(storage_log'[b])] IN
                   c.call \in AbortingSteps /\ c.last /\ ~c.ok)
                 => LET id == storage_log'[b][Len(storage_log'[b])].id IN
                    /\ error_notifications'[id] = IF error_listener THEN 1 ELSE 0
                    /\ \A other \in Ids \ {id} :
                          error_notifications'[other] = error_notifications[other]]_vars

\* The metadata update of the finalization failed after receiver.finish and
\* finalize_state_snapshot returned Ok: nothing was called after it, the
\* error was reported once and no commit notification was sent.
C26_Witness ==
    \E b \in Boots :
        /\ Len(storage_log[b]) = 5
        /\ storage_log[b][3] = Call("finish_box", 1, 1, TRUE, TRUE)
        /\ storage_log[b][4] = Call("finalize_state_snapshot", 1, 1, TRUE, TRUE)
        /\ storage_log[b][5] =
              Call("update_last_persisted_state_value_index", 1, 1, TRUE, FALSE)
        /\ error_notifications[1] = 1
        /\ commit_notifications = <<>>
        /\ Ended(receiver[b])

\* The add_chunk of chunk id returned Err in bootstrap b.
AddChunkFailed(b, id) ==
    \E k \in CallsOf(b, "add_chunk") :
        storage_log[b][k].id = id /\ ~storage_log[b][k].ok

\* After a failed add_chunk the only call made for the chunk is that
\* add_chunk (no metadata update, no step of the finalization), the chunk
\* has its one decrement as soon as the task has left it, and the task ends
\* only by a later chunk: the last chunk of the bootstrap, appended
\* successfully.
DroppedAfterAddChunk(b, id) ==
    /\ Cardinality(CallsFor(b, id)) = 1
    /\ hist[id].decs <= 1
    /\ \/ receiver[b].pc = "dec" /\ receiver[b].cur.id = id /\ hist[id].decs = 0
       \/ hist[id].decs = 1
    /\ Ended(receiver[b])
          => \E k \in CallsOf(b, "add_chunk") :
                /\ storage_log[b][k].id > id
                /\ storage_log[b][k].ok /\ storage_log[b][k].last

\* C27 (as stated): when add_chunk fails for a state chunk, flagged last or
\* not, exactly one ErrorNotification with its id is emitted, no metadata
\* update and no step of the finalization is made for it, it is decremented
\* exactly once and the task stays alive for the next chunk.
C27_AddChunkFailureContinues ==
    \A b \in Boots : \A id \in Ids :
        AddChunkFailed(b, id)
           => /\ DroppedAfterAddChunk(b, id)
              /\ error_notifications[id] = 1

\* C27 (amended): the same, with exactly one ErrorNotification when the
\* driver still holds the error receiver at the moment of the failure and
\* none when it has dropped it; the decrement after the failure takes the
\* task back to its listener with the channel open, where it can take the
\* next queued chunk.
C27_AddChunkFailureContinuesNotifiesListener ==
    /\ [](\A b \in Boots :
            /\ \A id \in Ids :
                  AddChunkFailed(b, id)
                     => /\ DroppedAfterAddChunk(b, id)
                        /\ error_notifications[id] <= 1
            /\ (receiver[b] = Idle /\ snapshot_ch[b].q # <<>>)
                  => ENABLED receiver_recv(b))
    /\ [][\A b \in Boots : \A id \in Ids :
            /\ (~AddChunkFailed(b, id) /\ AddChunkFailed(b, id)')
                  => /\ error_notifications'[id] = IF error_listener THEN 1 ELSE 0
                     /\ \A other \in Ids \ {id} :
                           error_notifications'[other] = error_notifications[other]
                     /\ receiver'[b].pc = "dec" /\ receiver'[b].cur.id = id
            /\ (AddChunkFailed(b, id) /\ receiver[b].cur.id = id
                  /\ receiver'[b] # receiver[b])
                  => /\ receiver'[b] = Idle
                     /\ snapshot_ch'[b].open
                     /\ pending_data_chunks' = Borrow(pending_data_chunks, 1)
                     /\ hist'[id].decs = 1]_vars

\* add_chunk failed for chunk 1, which was flagged last: it was reported
\* and decremented once; the task then appended chunk 2 and wrote its index.
C27_Witness ==
    \E b \in Boots :
        /\ Len(storage_log[b]) = 4
        /\ storage_log[b][2] = Call("add_chunk", 1, 1, TRUE, FALSE)
        /\ error_notifications[1] = 1
        /\ hist[1].decs = 1
        /\ storage_log[b][3] = Call("add_chunk", 2, 2, FALSE, TRUE)
        /\ storage_log[b][4] =
              Call("update_last_persisted_state_value_index", 2, 2, FALSE, TRUE)
        /\ ~Ended(receiver[b])

\* C28: after the add_chunk of a chunk flagged last returned Ok the task
\* runs the finalization, makes the chunk's one decrement (which can always
\* be taken) and returns, whether the finalization succeeded or failed:
\* every later call of the bootstrap is a step of that finalization, made
\* once, there is no later add_chunk and no second metadata update, and a
\* task that has returned makes no call and never runs again.
C28_LastChunkTerminatesWorker ==
    /\ [](\A b \in Boots :
            /\ \A k \in CallsOf(b, "add_chunk") :
                  LET c == storage_log[b][k] IN
                  (c.ok /\ c.last)
                     => /\ \A j \in (k + 1)..Len(storage_log[b]) :
                              /\ storage_log[b][j].id = c.id
                              /\ storage_log[b][j].call # "add_chunk"
                              /\ \A i \in (k + 1)..Len(storage_log[b]) :
                                    storage_log[b][i].call = storage_log[b][j].call
                                       => i = j
                        /\ Len(storage_log[b]) > k
                        /\ \/ /\ receiver[b].pc = "dec_last"
                              /\ receiver[b].cur.id = c.id
                              /\ hist[c.id].decs = 0
                           \/ /\ receiver[b] = Done
                              /\ hist[c.id].decs = 1
            /\ receiver[b].pc = "dec_last" => ENABLED receiver_dec_last(b))
    /\ [][\A b \in Boots :
            /\ receiver[b] = Done
                  => receiver'[b] = Done /\ storage_log'[b] = storage_log[b]
            /\ (receiver[b].pc = "dec_last" /\ receiver'[b] # receiver[b])
                  => /\ receiver'[b] = Done
                     /\ pending_data_chunks' = Borrow(pending_data_chunks, 1)
                     /\ storage_log'[b] = storage_log[b]]_vars

\* The finalization of chunk 1 failed at finalize_state_snapshot; the task
\* made the decrement and returned although chunk 2 had been accepted and
\* was queued: no call was made for chunk 2.
C28_Witness ==
    \E b \in Boots :
        /\ receiver[b] = Done
        /\ Len(storage_log[b]) = 4
        /\ storage_log[b][4] = Call("finalize_state_snapshot", 1, 1, TRUE, FALSE)
        /\ hist[1].decs = 1
        /\ hist[2].ret = "ok" /\ hist[2].add = "none"

\* The ids of the chunks add_chunk was called with in bootstrap b, in the
\* order of the calls.
AddedIds(b) ==
    LET calls == SelectSeq(storage_log[b], LAMBDA c : c.call = "add_chunk")
    IN  [j \in 1..Len(calls) |-> calls[j].id]

\* The ids of the chunks save_state_values placed on a bootstrap channel, in
\* the order of the calls.
AcceptedIds ==
    SelectSeq([i \in 1..MaxChunks |-> i], LAMBDA i : hist[i].pushed)

IsPrefix(s, t) == Len(s) <= Len(t) /\ SubSeq(t, 1, Len(s)) = s

\* C29: the state chunks are appended in the order in which
\* save_state_values accepted them: the sequence of add_chunk calls is, one
\* call at a time, the sequence of accepted chunks (a prefix of it, with no
\* chunk twice), and unless a task has panicked every accepted chunk is
\* queued, held by the task, or has had its add_chunk.
C29_AddChunkInAcceptanceOrder ==
    /\ \A b \in Boots : IsPrefix(AddedIds(b), AcceptedIds)
    /\ NoPanic
          => \A id \in Ids :
                hist[id].pushed
                   => \/ SnapshotInFlight(id)
                      \/ \E b \in Boots :
                            \E j \in 1..Len(AddedIds(b)) : AddedIds(b)[j] = id

\* The chunks whose blocking call of the given stage has started and has
\* not returned (field is "enq", "upd" or "com").
CallsRunning(field) == {id \in Ids : hist[id][field] = "started"}

\* C30: each stage has at most one blocking executor call in flight: at no
\* time have two enqueue calls (execute or apply) started and not returned,
\* nor two update_ledger calls, nor two commit_chunk calls, and no stage
\* starts a call while a call of it is running.
C30_OneBlockingCallPerStage ==
    /\ [](/\ Cardinality(CallsRunning("enq")) <= 1
          /\ Cardinality(CallsRunning("upd")) <= 1
          /\ Cardinality(CallsRunning("com")) <= 1)
    /\ [][\A field \in {"enq", "upd", "com"} :
            CallsRunning(field)' # CallsRunning(field)
               => \/ CallsRunning(field) = {}
                  \/ CallsRunning(field)' = {}]_vars

\* The three stages run at once, each on its own chunk: commit_chunk of
\* chunk 1, update_ledger of chunk 2 and the enqueue of chunk 3.
C30_Witness ==
    /\ CallsRunning("com") = {1}
    /\ CallsRunning("upd") = {2}
    /\ CallsRunning("enq") = {3}

\* C31: the stages are pipelined across chunks: an executor that waits at
\* its listener with a chunk queued can take it and start its call whatever
\* the later stages are doing, in particular while the ledger updater or the
\* committer is still working on an earlier chunk; so a chunk need not reach
\* its terminal stage before the next one starts executing.
C31_StagesPipelined ==
    (executor.pc = "recv" /\ executor_ch.q # <<>>) => ENABLED executor_recv

\* The executor is executing chunk 2 while update_ledger of chunk 1 is
\* running, and chunk 1 has neither been committed nor failed.
C31_Witness ==
    /\ executor.pc = "call" /\ executor.cur.id = 2
    /\ ledger_updater.pc = "call" /\ ledger_updater.cur.id = 1
    /\ hist[1].com = "none" /\ ~hist[1].failed /\ ~Fanned(1)

\* The chunks the committer handed over, oldest first: those through the
\* fan-out, the one whose fan-out is running, those queued for it.
CommitLine ==
    fanout
    \o (IF post_processor.pc = "call" THEN <<post_processor.cur.id>> ELSE <<>>)
    \o [k \in 1..Len(post_processor_ch.q) |-> post_processor_ch.q[k].id]

\* The chunks whose commit_chunk returns Ok in this step.
CommittedNow == {id \in Ids : hist'[id].com = "ok" /\ hist[id].com # "ok"}

\* C32: the commit post-processor runs the fan-out exactly once for every
\* committed chunk, in the order the chunks were committed, decrements the
\* pending counter once after the fan-out whatever the sinks did, and never
\* sends an ErrorNotification; every committed chunk does get its fan-out
\* and its decrement.  In detail: the fan-out ran at most once for every
\* chunk and only for committed chunks; a chunk through the fan-out has its
\* one decrement or the post-processor is about to make it; a committed
\* chunk has no decrement before its fan-out and never an ErrorNotification;
\* the line of handed-over chunks only grows, at its end, by the chunk that
\* is committed in the step; a step of the post-processor leaves the error
\* channel alone.
C32_FanoutOncePerCommitInOrder ==
    /\ [](/\ \A i, j \in 1..Len(fanout) : fanout[i] = fanout[j] => i = j
          /\ \A id \in Ids :
                /\ Fanned(id) => hist[id].com = "ok"
                /\ Fanned(id) =>
                      \/ hist[id].decs = 1
                      \/ hist[id].decs = 0 /\ post_processor.pc = "dec"
                                           /\ post_processor.cur.id = id
                /\ (hist[id].com = "ok" /\ ~Fanned(id)) => hist[id].decs = 0
                /\ hist[id].com = "ok" => error_notifications[id] = 0)
    /\ [][/\ CommittedNow = {} => CommitLine' = CommitLine
          /\ \A id \in CommittedNow : CommitLine' = Append(CommitLine, id)
          /\ post_processor' # post_processor
                => error_notifications' = error_notifications]_vars
    /\ \A id \in Ids :
          (hist[id].com = "ok") ~> (Fanned(id) /\ hist[id].decs = 1)

\* Chunks 1 and 2 were committed and went through the fan-out in that order,
\* chunk 1 has its decrement and the decrement of chunk 2 is about to happen.
C32_Witness ==
    /\ fanout = <<1, 2>>
    /\ hist[1].decs = 1 /\ hist[2].decs = 0
    /\ post_processor.pc = "dec" /\ post_processor.cur.id = 2
    /\ pending_data_chunks = U64(1)

\* The chunk failed and no ErrorNotification for it was placed on the error
\* channel: the send failed and was only logged.
Unnotified(id) == hist[id].failed /\ error_notifications[id] = 0

\* The chunks that fail in this step.
FailedNow == {id \in Ids : hist'[id].failed /\ ~hist[id].failed}

\* C33: when the driver has dropped the error receiver, a failing chunk is
\* still handled: nothing is placed on the error channel, the worker that
\* hit the error goes on to the chunk's decrement, the chunk is decremented
\* exactly once, and every chunk submitted after it still reaches the
\* fan-out or its own failure and has its decrement.
C33_FailureAfterListenerDropped ==
    /\ [](\A id \in Ids :
            Unnotified(id) =>
                /\ ~error_listener
                /\ hist[id].decs <= 1
                /\ ~InFlight(id) => hist[id].decs = 1)
    /\ [][\A id \in FailedNow :
            ~error_listener =>
                /\ error_notifications' = error_notifications
                /\ \/ executor'.pc = "dec" /\ executor'.cur.id = id
                   \/ ledger_updater'.pc = "dec" /\ ledger_updater'.cur.id = id
                   \/ committer'.pc = "dec" /\ committer'.cur.id = id]_vars
    /\ \A id \in Ids : Unnotified(id) ~> (hist[id].decs = 1)
    /\ \A i, j \in Ids :
          i < j => ((Unnotified(i) /\ hist[j].pushed)
                       ~> ((Fanned(j) \/ hist[j].failed) /\ hist[j].decs = 1))

\* The error receiver was dropped, execution of chunk 1 then failed without
\* a notification, chunk 1 has its one decrement and chunk 2 went through
\* the whole pipeline after it.
C33_Witness ==
    /\ ~error_listener
    /\ hist[1].enq = "err" /\ error_notifications[1] = 0 /\ hist[1].decs = 1
    /\ fanout = <<2>> /\ hist[2].decs = 1 /\ executor.pc = "recv"

\* The try_send and increment of save_state_values with a chunk of another
\* variant: the state snapshot notifier is an mpsc::Sender<StorageDataChunk>,
\* so its channel can carry any variant and the receiver's match has an arm
\* for the others.  save_state_values itself only builds States chunks.
state_snapshot_notifier_try_send(h, kind) ==
    /\ sync[h].st = "idle"
    /\ next_id <= MaxChunks
    /\ next_id' = next_id + 1
    /\ LET b == sync[h].notifier IN
          /\ b # 0 /\ snapshot_ch[b].open /\ ~IsParked(snapshot_ch[b], h)
          /\ snapshot_ch' = [snapshot_ch EXCEPT ![b] =
                   do_send_b(@, h, StorageDataChunk(next_id, kind, 0, FALSE))]
          /\ sync' = [sync EXCEPT ![h].st = "sent", ![h].cur = next_id]
          /\ hist' = [hist EXCEPT ![next_id].pushed = TRUE]
    /\ UNCHANGED <<max_pending_data_chunks, pending_data_chunks, executor_ch,
                   ledger_updater_ch, committer_ch, post_processor_ch, tasks, driver,
                   fanout, storage_log, observed, chunk_executor, mock_vm, next_boot>>

\* The synchronizer with chunks of either variant sent on either channel, no
\* call failing, no chunk flagged last and no handle dropped, so that a
\* worker ends only in its wrong-variant arm or because the stage before it
\* ended.
NextMisrouted ==
    \/ Submit
    \/ \E h \in Handles : notify_executor(h, "States")
    \/ executor_recv \/ executor_ok \/ executor_flush
    \/ ledger_updater_recv \/ ledger_updater_ok \/ ledger_updater_flush
    \/ ledger_updater_exit
    \/ committer_recv \/ committer_ok \/ committer_flush \/ committer_exit
    \/ post_processor_recv \/ post_processor_fanout \/ post_processor_dec
    \/ post_processor_exit
    \/ \E h \in Handles, v \in TargetVersions : initialize_once(h, v)
    \/ \E h \in Handles, i \in 1..MaxIndex : save_state_values(h, i, FALSE)
    \/ \E h \in Handles : state_snapshot_notifier_try_send(h, "Transactions")
    \/ \E h \in Handles : save_state_values_return(h)
    \/ \E b \in Boots : receiver_start(b)
    \/ \E b \in Boots : receiver_recv(b)
    \/ \E b \in Boots : receiver_add_chunk(b, TRUE)
    \/ \E b \in Boots : receiver_dec(b)

SpecMisrouted == Init /\ [][NextMisrouted]_vars

\* No call of an ingress operation is between its send and its return.
AllReturned == \A h \in Handles : sync[h].st \in {"unused", "idle", "dropped"}

C35_NoStateChunkStranded ==
    (\E b \in Boots : receiver[b].pc = "done") =>
        /\ \A id \in Ids :
              hist[id].ret = "ok" => (hist[id].decs = 1 /\ ~Queued(id))
        /\ AllReturned => pending_data_chunks = U64(0)

\* Bootstrap b has taken chunk id, flagged last, off its channel and called
\* add_chunk for it.
LastChunkHandled(b, id) ==
    \E k \in CallsOf(b, "add_chunk") :
        storage_log[b][k].id = id /\ storage_log[b][k].last

\* The finalization of chunk id placed its StateSnapshotCommit on the commit
\* channel.
CommitReported(b, id) ==
    \E k \in CallsFor(b, id) :
        storage_log[b][k].call = "send_commit_notification" /\ storage_log[b][k].ok

\* C36: for the last state chunk of a bootstrap exactly one outcome is
\* reported to the driver: never both a StateSnapshotCommit and an
\* ErrorNotification with the chunk's id, and once the worker has left the
\* chunk (its decrement is made) one of them, the error at most once.
C36_ExactlyOneOutcome ==
    \A b \in Boots : \A id \in Ids :
        LastChunkHandled(b, id) =>
            /\ ~(CommitReported(b, id) /\ error_notifications[id] > 0)
            /\ error_notifications[id] <= 1
            /\ hist[id].decs = 1 => (CommitReported(b, id) \/ error_notifications[id] = 1)

\* The variants of the chunks queued on a channel.
KindsOn(ch) == {ch.q[k].kind : k \in 1..Len(ch.q)}

\* C37: through the public operations the executor channel only ever holds
\* Transactions and TransactionOutputs chunks and a bootstrap channel only
\* States chunks, so the wrong-variant arms of the executor and of the
\* snapshot receiver are never taken: no worker holds a chunk of the wrong
\* variant and the executor has not left its loop.
C37_RoutingInvariant ==
    /\ KindsOn(executor_ch) \subseteq {"Transactions", "TransactionOutputs"}
    /\ \A b \in Boots : KindsOn(snapshot_ch[b]) \subseteq {"States"}
    /\ executor.cur.kind \in {"None", "Transactions", "TransactionOutputs"}
    /\ \A b \in Boots : receiver[b].cur.kind \in {"None", "States"}
    /\ executor.pc # "done"

\* A Transactions and a TransactionOutputs chunk are queued on the executor
\* channel while a States chunk is queued on the bootstrap channel.
C37_Witness ==
    /\ KindsOn(executor_ch) = {"Transactions", "TransactionOutputs"}
    /\ \E b \in Boots : KindsOn(snapshot_ch[b]) = {"States"}

\* Every handle of the synchronizer has been dropped.
AllDropped == \A h \in Handles : ~Alive(h)

\* The four pipeline tasks have ended.
PipelineEnded ==
    Ended(executor) /\ Ended(ledger_updater) /\ Ended(committer) /\ Ended(post_processor)

\* The chunk went through the fan-out or failed, and has its one decrement.
Terminal(id) == (Fanned(id) \/ hist[id].failed) /\ hist[id].decs = 1

\* C38: shutdown drains the pipeline: a task ends only with its input
\* channel empty; once all handles are dropped the four tasks eventually
\* end, and when they have ended every admitted chunk has reached the
\* fan-out or an error and has its decrement, and the counter is 0.
C38_ShutdownDrains ==
    /\ [][/\ (Ended(executor)' /\ ~Ended(executor)) => executor_ch.q = <<>>
          /\ (Ended(ledger_updater)' /\ ~Ended(ledger_updater))
                => ledger_updater_ch.q = <<>>
          /\ (Ended(committer)' /\ ~Ended(committer)) => committer_ch.q = <<>>
          /\ (Ended(post_processor)' /\ ~Ended(post_processor))
                => post_processor_ch.q = <<>>]_vars
    /\ [](PipelineEnded =>
            /\ \A id \in Ids : hist[id].ret = "ok" => Terminal(id)
            /\ pending_data_chunks = U64(0))
    /\ AllDropped ~> (PipelineEnded /\ pending_data_chunks = U64(0))

\* Every handle was dropped with chunks 2 and 3 still queued: the executor
\* has since taken them and ended, chunk 1 went through the fan-out, and
\* the later stages are still working on chunks 2 and 3.
C38_Witness ==
    /\ AllDropped /\ executor.pc = "done"
    /\ Terminal(1)
    /\ WorkingOn(committer, 2) /\ WorkingOn(ledger_updater, 3)
    /\ hist[2].ret = "ok" /\ hist[3].ret = "ok"

====
